---- MODULE Spec2Model ----
(***************************************************************************)
(* Verification model of the wildfire early-warning node:                  *)
(*   - the Hive mesh (MeshNetwork, RoleAwareCommunicationLayer),           *)
(*   - the Phase-6 communication layer (Phase6CommunicationLayer),         *)
(*   - the Phase-1 watchdog (Phase1WatchdogLayer) and the pipeline cycle   *)
(*     that feeds the communication layer.                                 *)
(* Real-valued scores are carried as integer percents (0.6 -> 60), times   *)
(* as whole seconds, distances as whole kilometres.                        *)
(***************************************************************************)
EXTENDS Integers, Sequences, FiniteSets, TLC

VARIABLES
    \* ---- MeshNetwork ----
    nodes,            \* self.nodes: node_id -> node dict
    nodeOrder,        \* insertion order of self.nodes (dict iteration order)
    queen_node_id,    \* primary Queen
    queen_node_ids,   \* all Queens, in registration order
    stats,            \* self.stats
    message_log,      \* self.message_log: handles of the logged message objects
    messages,         \* the MeshMessage objects created so far (handle = index)
    layers,           \* RoleAwareCommunicationLayer objects, by node_id
    routeCalls,       \* number of route_message calls made so far
    routed,           \* history: message_ids for which route_message returned True
    lastRoute,        \* the last route_message call and what it returned
    lastAlert,        \* the last RoleAwareCommunicationLayer result dict
    \* ---- Queen aggregation ----
    now,              \* datetime.now(), in seconds
    received,         \* history: every receive_drone_alert call made on a Queen
    lastReceive,      \* what the last receive_drone_alert call returned
    \* ---- Phase-1 watchdog, Phase-6 communication, pipeline cycle ----
    sensor_states,    \* Phase1WatchdogLayer.sensor_states: sensor_id -> SensorState
    watchdog,         \* Phase1WatchdogLayer: stats and the trauma system
    comm,             \* Phase6CommunicationLayer of the pipeline node
    iteration,        \* Complete6PhaseFireDetectionSystem.iteration
    gasped,           \* history: sensors that have had a dying-gasp reading
    lastValidate,     \* the last Phase1WatchdogLayer.validate call and its result
    lastCycle,        \* the last process_cycle / process_alert call and its alert
    \* ---- Phase-5 logic gate ----
    logic,            \* Phase5LogicGate: trauma level and statistics
    lastDecision,     \* the last Phase5LogicGate.decide call and its decision
    \* ---- Phase-2 fractal gate, vision stage, monitoring loop ----
    fractal,          \* Phase2FractalGate: buffer length, last analysis, trauma
    lastFractal,      \* the last call on the fractal gate or the vision stage
    monitor,          \* run_continuous_monitoring: where the loop stands
    \* ---- Phase-0 fusion ----
    fusion,           \* Phase0FusionEngine: last state's risk and statistics
    ssm,              \* MambaSSM of Phase0FusionEngineWithMamba: temporal state
    lastFuse,         \* the last fuse call and the EnvironmentalState it returned
    \* ---- threads calling into the MeshNetwork ----
    threads           \* per thread: where its route_message call stands

meshVars == <<nodes, nodeOrder, queen_node_id, queen_node_ids, stats, message_log,
              messages, layers, routeCalls, routed, lastRoute, lastAlert>>

queenVars == <<now, received, lastReceive>>

logicVars == <<logic, lastDecision>>

pipeVars == <<fractal, lastFractal, monitor>>

fusionVars == <<fusion, ssm, lastFuse>>

\* The variables of the components that stand beside the pipeline node
threadVars == <<threads>>

otherVars == <<fusionVars, threadVars>>

\* The node group without the threads
seqVars == <<sensor_states, watchdog, comm, iteration, gasped, lastValidate,
             lastCycle, logicVars, pipeVars, fusionVars>>

nodeVars == <<sensor_states, watchdog, comm, iteration, gasped, lastValidate,
              lastCycle, logicVars, pipeVars, otherVars>>

vars == <<meshVars, queenVars, nodeVars>>

-----------------------------------------------------------------------------
(* Bounds of the model *)
MaxMsgs == 2          \* MeshMessage objects created
MaxRoutes == 2        \* route_message calls
MaxReceives == 3      \* receive_drone_alert calls on a Queen
MaxTime == 360        \* the clock stops here
MaxReadings == 3      \* Phase1WatchdogLayer.validate calls
MaxAlerts == 2        \* Phase6CommunicationLayer.process_alert calls
MaxDecisions == 3     \* direct Phase5LogicGate.decide calls
MaxNeighbors == 2     \* length of a neighbor_nodes list
MaxWatchdogReadings == 4  \* validate calls on a watchdog of its own
MaxHours == 6         \* the watchdog's clock stops here
MaxTraumaEvents == 4  \* register_trauma calls
MaxDays == 4          \* the trauma system's clock stops here
MaxSamples == 44      \* risk scores appended to the fractal gate's buffer
MaxFusions == 7       \* Phase0FusionEngineWithMamba.fuse calls
MaxBaseFusions == 2   \* Phase0FusionEngine.fuse calls

-----------------------------------------------------------------------------
(* Values *)
NoneVal == "None"             \* Python None
Absent == "ABSENT"            \* a dict key that is not present
SATELLITE == "SATELLITE"      \* the satellite marker appended to relay_path
DefaultQueenName == "QUEEN"   \* destination used when queen_node_id is None

Queens == {"Q1", "Q2"}
Drones == {"D1", "D2"}
NodeIds == Queens \cup Drones

RoleOf(n) == IF n \in Queens THEN "QUEEN" ELSE "DRONE"

\* Bring-up order of a deployment (server.py builds the Queens first, then the
\* Drones); a node may be left out
Rank(n) == CASE n = "Q1" -> 1 [] n = "Q2" -> 2 [] n = "D2" -> 3 [] OTHER -> 4

\* Deployment geometry, in km along one axis: D1 is out of LoRa range of Q1,
\* Q2 and D2 sit between them, within range of both.
SiteOf(n) == CASE n = "Q1" -> 0 [] n = "Q2" -> 2 [] n = "D2" -> 2 [] OTHER -> 4

heartbeat_interval_sec == 3600
heartbeat_jitter_sec == 600
lora_range_meters == 2        \* MeshNetwork(lora_range_meters=2000.0), in km
max_log_size == 200

Abs(x) == IF x < 0 THEN -x ELSE x

\* GPSCoordinate.distance_to, on the one-axis geometry
distance_to(a, b) == Abs(a - b)

-----------------------------------------------------------------------------
(* AlertPriority and Phase6CommunicationLayer._determine_priority *)

determine_priority(risk_score, confidence, witnesses, battery_level) ==
    IF risk_score > 80 /\ confidence > 80 /\ witnesses >= 1 THEN "P1_CRITICAL"
    ELSE IF risk_score > 60 /\ confidence > 60 THEN "P2_MEDIUM"
    ELSE "P3_MAINTENANCE"

-----------------------------------------------------------------------------
(* MeshNetwork *)

InitStats == [messages_routed |-> 0, drone_to_queen |-> 0, queen_to_satellite |-> 0,
              heartbeats_received |-> 0, alerts_aggregated |-> 0, relay_hops_total |-> 0]

\* MeshMessage(...) as constructed by a caller: hop_count 0
MeshMessage(id, src, dst, type, path, prio) ==
    [message_id |-> id, source_node_id |-> src, destination_node_id |-> dst,
     message_type |-> type, hop_count |-> 0, relay_path |-> path, priority |-> prio]

\* MeshNetwork.register_node: the node dict, and the Queen bookkeeping
NodeDict(role, loc, cfgQueen) ==
    [role |-> role, location |-> loc, cfg_queen |-> cfgQueen, status |-> "ONLINE",
     last_heartbeat |-> now, queen_id |-> Absent, alerts_sent |-> 0]

RegisteredNodes(n, role, loc, cfgQueen) ==
    [m \in DOMAIN nodes \cup {n} |->
        IF m = n THEN NodeDict(role, loc, cfgQueen) ELSE nodes[m]]

RegisteredOrder(n) ==
    IF n \in DOMAIN nodes THEN nodeOrder ELSE Append(nodeOrder, n)

RegisteredPrimary(n, role) ==
    IF role = "QUEEN" /\ queen_node_id = NoneVal THEN n ELSE queen_node_id

RegisteredQueens(n, role) ==
    IF role = "QUEEN" /\ ~(\E i \in 1..Len(queen_node_ids) : queen_node_ids[i] = n)
    THEN Append(queen_node_ids, n) ELSE queen_node_ids

\* MeshNetwork._find_relay_node: the first node, in dict order, of least total
\* distance among the ONLINE nodes within range of both the source and the Queen
RelayCandidates(source_id, queen_id) ==
    {i \in 1..Len(nodeOrder) :
        /\ nodeOrder[i] # source_id
        /\ nodeOrder[i] # queen_id
        /\ nodes[nodeOrder[i]].status = "ONLINE"
        /\ distance_to(nodes[nodeOrder[i]].location, nodes[source_id].location)
              <= lora_range_meters
        /\ distance_to(nodes[nodeOrder[i]].location, nodes[queen_id].location)
              <= lora_range_meters}

TotalDist(i, source_id, queen_id) ==
    distance_to(nodes[nodeOrder[i]].location, nodes[source_id].location)
    + distance_to(nodes[nodeOrder[i]].location, nodes[queen_id].location)

find_relay_node(source_id, queen_id) ==
    LET c == RelayCandidates(source_id, queen_id) IN
    IF c = {} THEN NoneVal
    ELSE LET best == CHOOSE i \in c : \A j \in c :
                        \/ TotalDist(i, source_id, queen_id) < TotalDist(j, source_id, queen_id)
                        \/ /\ TotalDist(i, source_id, queen_id) = TotalDist(j, source_id, queen_id)
                           /\ i <= j
         IN nodeOrder[best]

\* MeshNetwork._log_message, on a log of message handles
log_message(log, h) ==
    LET l == Append(log, h) IN IF Len(l) > max_log_size THEN Tail(l) ELSE l

\* The Queen a Drone's message is sent to: its destination when that names a
\* registered node, else the node dict's queen_id, else the primary Queen
TargetQueen(msg) ==
    LET dst == msg.destination_node_id
        src == msg.source_node_id
    IN IF dst = NoneVal \/ dst \notin DOMAIN nodes
       THEN (IF nodes[src].queen_id = Absent THEN queen_node_id ELSE nodes[src].queen_id)
       ELSE dst

\* DroneHops with the out-of-range fallback counting a hop without recording
\* the Queen in relay_path
DroneHopsFallbackDropsQueen(msg, target) ==
    LET src == msg.source_node_id IN
    IF distance_to(nodes[src].location, nodes[target].location) <= lora_range_meters
    THEN [msg EXCEPT !.destination_node_id = target,
                     !.hop_count = @ + 1,
                     !.relay_path = Append(@, target)]
    ELSE LET relay == find_relay_node(src, target) IN
         IF relay # NoneVal
         THEN [msg EXCEPT !.hop_count = @ + 2,
                          !.relay_path = Append(Append(@, relay), target)]
         ELSE [msg EXCEPT !.hop_count = @ + 1]

\* The three ways a Drone's message reaches the target: direct, relayed, and
\* the out-of-range fallback
DroneHops(msg, target) ==
    LET src == msg.source_node_id IN
    IF distance_to(nodes[src].location, nodes[target].location) <= lora_range_meters
    THEN [msg EXCEPT !.destination_node_id = target,
                     !.hop_count = @ + 1,
                     !.relay_path = Append(@, target)]
    ELSE LET relay == find_relay_node(src, target) IN
         IF relay # NoneVal
         THEN [msg EXCEPT !.hop_count = @ + 2,
                          !.relay_path = Append(Append(@, relay), target)]
         ELSE [msg EXCEPT !.hop_count = @ + 1,
                          !.relay_path = Append(@, target)]

\* MeshNetwork._route_drone_to_queen; h is the handle of the message object
route_drone_to_queen(msg, h) ==
    LET target == TargetQueen(msg)
        src == msg.source_node_id
    IN IF target = NoneVal \/ target \notin DOMAIN nodes
       THEN [ok |-> FALSE, msg |-> msg, stats |-> stats, nodes |-> nodes,
             log |-> message_log, target |-> NoneVal]
       ELSE LET m2 == DroneHops(msg, target)
                s1 == [stats EXCEPT !.messages_routed = @ + 1,
                                    !.drone_to_queen = @ + 1,
                                    !.relay_hops_total = @ + m2.hop_count]
                s2 == IF msg.message_type = "heartbeat"
                      THEN [s1 EXCEPT !.heartbeats_received = @ + 1] ELSE s1
                n2 == IF msg.message_type = "heartbeat"
                      THEN [nodes EXCEPT ![src].last_heartbeat = now] ELSE nodes
            IN [ok |-> TRUE, msg |-> m2, stats |-> s2,
                nodes |-> [n2 EXCEPT ![src].alerts_sent = @ + 1],
                log |-> log_message(message_log, h), target |-> target]

\* MeshNetwork._route_queen_uplink
route_queen_uplink(msg, h) ==
    [ok |-> TRUE,
     msg |-> [msg EXCEPT !.hop_count = @ + 1,
                         !.relay_path = Append(@, SATELLITE),
                         !.message_type = "satellite_uplink"],
     stats |-> [stats EXCEPT !.messages_routed = @ + 1, !.queen_to_satellite = @ + 1],
     nodes |-> nodes, log |-> log_message(message_log, h), target |-> SATELLITE]

InPath(x, path) == \E i \in 1..Len(path) : path[i] = x

\* route_message with a Drone's P1 alert handed to the satellite uplink
route_message_DroneP1Uplinks(msg, h) ==
    LET m1 == IF InPath(msg.source_node_id, msg.relay_path) THEN msg
              ELSE [msg EXCEPT !.relay_path = Append(@, msg.source_node_id)]
    IN IF m1.source_node_id \notin DOMAIN nodes
       THEN [ok |-> FALSE, msg |-> m1, stats |-> stats, nodes |-> nodes,
             log |-> message_log, target |-> NoneVal]
       ELSE IF nodes[m1.source_node_id].role = "DRONE" /\ m1.priority # "P1_CRITICAL"
            THEN route_drone_to_queen(m1, h)
       ELSE route_queen_uplink(m1, h)

\* route_message adding the source to relay_path on every call
route_message_AlwaysAppendsSource(msg, h) ==
    LET m1 == [msg EXCEPT !.relay_path = Append(@, msg.source_node_id)]
    IN IF m1.source_node_id \notin DOMAIN nodes
       THEN [ok |-> FALSE, msg |-> m1, stats |-> stats, nodes |-> nodes,
             log |-> message_log, target |-> NoneVal]
       ELSE IF nodes[m1.source_node_id].role = "DRONE" THEN route_drone_to_queen(m1, h)
       ELSE route_queen_uplink(m1, h)

\* MeshNetwork.route_message
route_message(msg, h) ==
    LET m1 == IF InPath(msg.source_node_id, msg.relay_path) THEN msg
              ELSE [msg EXCEPT !.relay_path = Append(@, msg.source_node_id)]
    IN IF m1.source_node_id \notin DOMAIN nodes
       THEN [ok |-> FALSE, msg |-> m1, stats |-> stats, nodes |-> nodes,
             log |-> message_log, target |-> NoneVal]
       ELSE IF nodes[m1.source_node_id].role = "DRONE" THEN route_drone_to_queen(m1, h)
       ELSE IF nodes[m1.source_node_id].role = "QUEEN" THEN route_queen_uplink(m1, h)
       ELSE [ok |-> FALSE, msg |-> m1, stats |-> stats, nodes |-> nodes,
             log |-> message_log, target |-> NoneVal]

\* What a route_message call leaves behind: the history of the call
RouteRecord(msg, r) ==
    [called |-> TRUE, ok |-> r.ok, message_id |-> msg.message_id,
     source |-> msg.source_node_id, target |-> r.target,
     replay |-> msg.message_id \in routed,
     stats_before |-> stats, msg |-> r.msg]

NoRoute ==
    [called |-> FALSE, ok |-> FALSE, message_id |-> <<NoneVal, NoneVal, 0>>,
     source |-> NoneVal, target |-> NoneVal, replay |-> FALSE,
     stats_before |-> InitStats,
     msg |-> MeshMessage(<<NoneVal, NoneVal, 0>>, NoneVal, NoneVal, NoneVal, <<>>, NoneVal)]

NoAlert == [role |-> NoneVal, source |-> NoneVal, channel |-> NoneVal,
            priority |-> NoneVal, success |-> FALSE, relay_path |-> <<>>]

-----------------------------------------------------------------------------
(* Actions of the mesh *)

MeshInit ==
    /\ nodes = <<>>
    /\ nodeOrder = <<>>
    /\ queen_node_id = NoneVal
    /\ queen_node_ids = <<>>
    /\ stats = InitStats
    /\ message_log = <<>>
    /\ messages = <<>>
    /\ layers = <<>>
    /\ routeCalls = 0
    /\ routed = {}
    /\ lastRoute = NoRoute
    /\ lastAlert = NoAlert

QueenInit ==
    /\ now = 0
    /\ received = <<>>
    /\ lastReceive = NoneVal

\* RoleAwareCommunicationLayer.__init__: the layer object, registered in the mesh
CreateLayer(n, q, sat) ==
    /\ n \notin DOMAIN layers
    /\ \A m \in DOMAIN layers : Rank(m) < Rank(n)
    /\ layers' = [m \in DOMAIN layers \cup {n} |->
                    IF m = n THEN [role |-> RoleOf(n), queen_node_id |-> q,
                                   has_satellite |-> sat, message_counter |-> 0,
                                   heartbeat_count |-> 0, drone_alerts |-> <<>>]
                    ELSE layers[m]]
    /\ nodes' = RegisteredNodes(n, RoleOf(n), SiteOf(n), q)
    /\ nodeOrder' = RegisteredOrder(n)
    /\ queen_node_id' = RegisteredPrimary(n, RoleOf(n))
    /\ queen_node_ids' = RegisteredQueens(n, RoleOf(n))
    /\ UNCHANGED <<stats, message_log, messages, routeCalls, routed, lastRoute, lastAlert>>
    /\ UNCHANGED <<queenVars, nodeVars>>

\* server.py tags each registered Drone's node dict with its Queen
TagQueenId(n) ==
    /\ n \in DOMAIN nodes /\ n \in DOMAIN layers
    /\ layers[n].role = "DRONE"
    /\ layers[n].queen_node_id # NoneVal
    /\ nodes[n].queen_id = Absent
    /\ nodes' = [nodes EXCEPT ![n].queen_id = layers[n].queen_node_id]
    /\ UNCHANGED <<nodeOrder, queen_node_id, queen_node_ids, stats, message_log,
                   messages, layers, routeCalls, routed, lastRoute, lastAlert>>
    /\ UNCHANGED <<queenVars, nodeVars>>

\* MeshNetwork.update_node_status(node_id, status=...)
UpdateNodeStatus(n, st) ==
    /\ n \in DOMAIN nodes
    /\ nodes[n].status # st
    /\ nodes' = [nodes EXCEPT ![n].status = st]
    /\ UNCHANGED <<nodeOrder, queen_node_id, queen_node_ids, stats, message_log,
                   messages, layers, routeCalls, routed, lastRoute, lastAlert>>
    /\ UNCHANGED <<queenVars, nodeVars>>

\* A caller builds a MeshMessage and hands it to route_message
RouteNew(k, src, dst, type) ==
    /\ Len(messages) < MaxMsgs
    /\ routeCalls < MaxRoutes
    /\ LET msg == MeshMessage(<<"EXT", "MSG", k>>, src, dst, type, <<>>, NoneVal)
           h == Len(messages) + 1
           r == route_message(msg, h)
       IN /\ messages' = Append(messages, r.msg)
          /\ stats' = r.stats
          /\ nodes' = r.nodes
          /\ message_log' = r.log
          /\ routed' = IF r.ok THEN routed \cup {msg.message_id} ELSE routed
          /\ lastRoute' = RouteRecord(msg, r)
    /\ routeCalls' = routeCalls + 1
    /\ UNCHANGED <<nodeOrder, queen_node_id, queen_node_ids, layers, lastAlert>>
    /\ UNCHANGED <<queenVars, nodeVars>>

\* route_message called again on a message object routed before (a replay)
RouteAgain(h) ==
    /\ h \in 1..Len(messages)
    /\ routeCalls < MaxRoutes
    /\ LET msg == messages[h]
           r == route_message(msg, h)
       IN /\ messages' = [messages EXCEPT ![h] = r.msg]
          /\ stats' = r.stats
          /\ nodes' = r.nodes
          /\ message_log' = r.log
          /\ routed' = IF r.ok THEN routed \cup {msg.message_id} ELSE routed
          /\ lastRoute' = RouteRecord(msg, r)
    /\ routeCalls' = routeCalls + 1
    /\ UNCHANGED <<nodeOrder, queen_node_id, queen_node_ids, layers, lastAlert>>
    /\ UNCHANGED <<queenVars, nodeVars>>

\* RoleAwareCommunicationLayer.process_alert on a Drone (_drone_process_alert)
DroneProcessAlert(n, risk_score, confidence, witnesses) ==
    /\ n \in DOMAIN layers
    /\ layers[n].role = "DRONE"
    /\ Len(messages) < MaxMsgs
    /\ routeCalls < MaxRoutes
    /\ LET priority == determine_priority(risk_score, confidence, witnesses, 100)
           cnt == layers[n].message_counter + 1
           dst == IF layers[n].queen_node_id = NoneVal THEN DefaultQueenName
                  ELSE layers[n].queen_node_id
           msg == MeshMessage(<<n, "MESH", cnt>>, n, dst, "alert", <<>>, priority)
           h == Len(messages) + 1
           r == route_message(msg, h)
       IN /\ layers' = [layers EXCEPT ![n].message_counter = cnt]
          /\ messages' = Append(messages, r.msg)
          /\ stats' = r.stats
          /\ nodes' = r.nodes
          /\ message_log' = r.log
          /\ routed' = IF r.ok THEN routed \cup {msg.message_id} ELSE routed
          /\ lastRoute' = RouteRecord(msg, r)
          /\ lastAlert' = [role |-> "DRONE", source |-> n, channel |-> "LORA_TO_QUEEN",
                           priority |-> priority, success |-> r.ok,
                           relay_path |-> r.msg.relay_path]
    /\ routeCalls' = routeCalls + 1
    /\ UNCHANGED <<nodeOrder, queen_node_id, queen_node_ids>>
    /\ UNCHANGED <<queenVars, nodeVars>>

\* RoleAwareCommunicationLayer.send_heartbeat
SendHeartbeat(n) ==
    /\ n \in DOMAIN layers
    /\ layers[n].role = "DRONE"
    /\ Len(messages) < MaxMsgs
    /\ routeCalls < MaxRoutes
    /\ LET cnt == layers[n].heartbeat_count + 1
           dst == IF layers[n].queen_node_id = NoneVal THEN DefaultQueenName
                  ELSE layers[n].queen_node_id
           msg == MeshMessage(<<n, "HB", cnt>>, n, dst, "heartbeat", <<>>, NoneVal)
           h == Len(messages) + 1
           r == route_message(msg, h)
       IN /\ layers' = [layers EXCEPT ![n].heartbeat_count = cnt]
          /\ messages' = Append(messages, r.msg)
          /\ stats' = r.stats
          /\ nodes' = r.nodes
          /\ message_log' = r.log
          /\ routed' = IF r.ok THEN routed \cup {msg.message_id} ELSE routed
          /\ lastRoute' = RouteRecord(msg, r)
    /\ routeCalls' = routeCalls + 1
    /\ UNCHANGED <<nodeOrder, queen_node_id, queen_node_ids, lastAlert>>
    /\ UNCHANGED <<queenVars, nodeVars>>

\* receive_drone_alert on a node that is not a Queen: returns None
ReceiveOnDrone(n) ==
    /\ n \in DOMAIN layers
    /\ layers[n].role # "QUEEN"
    /\ lastReceive' = NoneVal
    /\ UNCHANGED <<meshVars, now, received, nodeVars>>

MeshNext ==
    \/ \E n \in NodeIds : \E q \in Queens \cup {NoneVal} :
          /\ (n \in Queens => q = NoneVal)
          /\ (n = "D2" => q = "Q1")
          /\ CreateLayer(n, q, n \in Queens)
    \/ TagQueenId("D1")
    \/ \E st \in {"ONLINE", "OFFLINE"} : UpdateNodeStatus("D2", st)
    \/ \E dst \in {"Q1", "Q2", "D2"} : RouteNew(1, "D1", dst, "alert")
    \/ RouteNew(1, "Q1", SATELLITE, "satellite_uplink")
    \/ \E h \in 1..MaxMsgs : RouteAgain(h)
    \/ \E n \in Drones : \E w \in {0, 1} : DroneProcessAlert(n, 95, 90, w)
    \/ \E n \in Drones : SendHeartbeat(n)
    \/ \E n \in Drones : ReceiveOnDrone(n)

-----------------------------------------------------------------------------
(* Properties of the mesh *)

IsDrone(n) == n \in DOMAIN nodes /\ nodes[n].role = "DRONE"
IsQueen(n) == n \in DOMAIN nodes /\ nodes[n].role = "QUEEN"

\* C1: no message whose source is a Drone carries the satellite hop or the
\* satellite_uplink type, and no Drone alert result reports the satellite
\* channel, whatever its priority; every message that carries the satellite
\* hop was sent by a Queen.
C1_DroneNeverSatellite ==
    /\ \A h \in 1..Len(messages) :
          /\ IsDrone(messages[h].source_node_id) =>
                /\ ~InPath(SATELLITE, messages[h].relay_path)
                /\ messages[h].message_type # "satellite_uplink"
          /\ InPath(SATELLITE, messages[h].relay_path) =>
                IsQueen(messages[h].source_node_id)
    /\ lastAlert.role = "DRONE" =>
          /\ lastAlert.channel # SATELLITE
          /\ ~InPath(SATELLITE, lastAlert.relay_path)

\* A Drone's P1 alert was routed
C1_Witness ==
    /\ lastAlert.role = "DRONE"
    /\ lastAlert.priority = "P1_CRITICAL"
    /\ lastAlert.success
    /\ \E h \in 1..Len(messages) : InPath(SATELLITE, messages[h].relay_path)

\* C2: every accepted message of a Drone whose configured Queen is a registered
\* Queen is delivered to that Queen and to no other node.
C2_DeliveredToAssignedQueen ==
    (/\ lastRoute.called
     /\ lastRoute.ok
     /\ IsDrone(lastRoute.source)
     /\ IsQueen(nodes[lastRoute.source].cfg_queen))
    => lastRoute.target = nodes[lastRoute.source].cfg_queen

\* C3: an accepted Drone message has the Queen it was routed to in its
\* relay_path and a hop_count of at least 1.
C3_QueenInPathAndHop ==
    (lastRoute.called /\ lastRoute.ok /\ IsDrone(lastRoute.source))
    => /\ InPath(lastRoute.target, lastRoute.msg.relay_path)
       /\ lastRoute.msg.hop_count >= 1

\* A Drone out of range of its Queen with no relay at hand was routed by the
\* fallback
C3_Witness ==
    /\ lastRoute.called /\ lastRoute.ok
    /\ lastRoute.source = "D1" /\ lastRoute.target = "Q1"
    /\ lastRoute.msg.relay_path = <<"D1", "Q1">>
    /\ lastRoute.msg.hop_count = 1

\* C8: routing a message whose message_id was routed before leaves every
\* stats counter as it was.
C8_ReplayKeepsStats ==
    (lastRoute.called /\ lastRoute.replay) => stats = lastRoute.stats_before

-----------------------------------------------------------------------------
(* Queen aggregation: RoleAwareCommunicationLayer.receive_drone_alert *)

aggregation_window_sec == 300
escalation_threshold == 2

\* The alert dicts a Queen is handed: <<source, risk_score, age of the alert's
\* own timestamp on arrival>>
AlertInputs == {<<"D1", 75, 0>>, <<"D2", 75, 0>>, <<"D3", 75, 0>>,
                <<"D1", 50, 0>>, <<"D2", 75, 400>>}

\* CleanWindow that never drops an alert
CleanWindowKeepsAll(buf) == buf

\* The buffer after "Clean old alerts outside window"
CleanWindow(buf) ==
    SelectSeq(buf, LAMBDA a : a.received_at > now - aggregation_window_sec)

\* HighRisk with the bar at 0.8
HighRiskAbove80(buf) == SelectSeq(buf, LAMBDA a : a.risk_score > 80)

\* recent_high_risk
HighRisk(buf) == SelectSeq(buf, LAMBDA a : a.risk_score > 60)

SourcesOf(buf) == {buf[i].source : i \in 1..Len(buf)}

RECURSIVE SumRisk(_)
SumRisk(buf) == IF buf = <<>> THEN 0 ELSE Head(buf).risk_score + SumRisk(Tail(buf))

\* The dict receive_drone_alert returns on escalation
EscalatedResult(n, cnt, high, path) ==
    [alert_id |-> <<n, "ESCALATED", cnt>>, type |-> "MULTI_DRONE_CONSENSUS",
     escalated |-> TRUE, source |-> n, role |-> "QUEEN",
     priority |-> "P1_CRITICAL", channel |-> SATELLITE,
     source_drones |-> SourcesOf(high), avg_risk |-> SumRisk(high) \div Len(high),
     buffered_alerts |-> 0, relay_path |-> path]

\* The dict receive_drone_alert returns when it relays a single alert
RelayResult(n, alert, buf) ==
    [alert_id |-> alert.alert_id, type |-> "DRONE_RELAY",
     escalated |-> FALSE, source |-> alert.source, role |-> "QUEEN",
     priority |-> alert.priority, channel |-> "LORA_GATEWAY",
     source_drones |-> {}, avg_risk |-> 0,
     buffered_alerts |-> Len(buf), relay_path |-> <<>>]

\* One entry of the call history: the alert, when it came, what was counted
\* (recent_high_risk) and what was returned
ReceiveRecord(alert, high, result) ==
    [source |-> alert.source, risk_score |-> alert.risk_score,
     timestamp |-> alert.timestamp, received_at |-> now,
     counted |-> high, result |-> result]

\* Time passes
Tick(d) ==
    /\ now + d <= MaxTime
    /\ now' = now + d
    /\ UNCHANGED <<meshVars, received, lastReceive, nodeVars>>

\* receive_drone_alert on a Queen
ReceiveDroneAlert(n, src, risk_score, age) ==
    /\ n \in DOMAIN layers
    /\ layers[n].role = "QUEEN"
    /\ Len(received) < MaxReceives
    /\ Len(messages) < MaxMsgs
    /\ routeCalls < MaxRoutes
    /\ LET alert == [alert_id |-> <<src, "MESH", Len(received) + 1>>,
                     source |-> src, risk_score |-> risk_score,
                     priority |-> determine_priority(risk_score, 90, 0, 100),
                     timestamp |-> now - age, received_at |-> now]
           buf == CleanWindow(Append(layers[n].drone_alerts, alert))
           high == HighRisk(buf)
       IN IF Len(high) >= escalation_threshold
          THEN LET cnt == layers[n].message_counter + 1
                   msg == MeshMessage(<<n, "ESCALATED", cnt>>, n, SATELLITE,
                                      "satellite_uplink", <<n>>, "P1_CRITICAL")
                   h == Len(messages) + 1
                   r == route_message(msg, h)
                   result == EscalatedResult(n, cnt, high, r.msg.relay_path)
               IN /\ layers' = [layers EXCEPT ![n].message_counter = cnt,
                                              ![n].drone_alerts = <<>>]
                  /\ messages' = Append(messages, r.msg)
                  /\ stats' = [r.stats EXCEPT !.alerts_aggregated = @ + 1]
                  /\ nodes' = r.nodes
                  /\ message_log' = r.log
                  /\ routed' = IF r.ok THEN routed \cup {msg.message_id} ELSE routed
                  /\ lastRoute' = RouteRecord(msg, r)
                  /\ routeCalls' = routeCalls + 1
                  /\ lastReceive' = result
                  /\ received' = Append(received, ReceiveRecord(alert, high, result))
          ELSE LET result == RelayResult(n, alert, buf)
               IN /\ layers' = [layers EXCEPT ![n].drone_alerts = buf]
                  /\ lastReceive' = result
                  /\ received' = Append(received, ReceiveRecord(alert, high, result))
                  /\ UNCHANGED <<messages, stats, nodes, message_log, routed,
                                 lastRoute, routeCalls>>
    /\ UNCHANGED <<nodeOrder, queen_node_id, queen_node_ids, lastAlert, now, nodeVars>>

QueenNext ==
    \/ CreateLayer("Q1", NoneVal, TRUE)
    \/ \E d \in {60, 300} : Tick(d)
    \/ \E a \in AlertInputs : ReceiveDroneAlert("Q1", a[1], a[2], a[3])

-----------------------------------------------------------------------------
(* Properties of the Queen aggregation, over the call history *)

\* Calls up to k whose alert arrived in the 300 seconds that end at call k
InWindow(k) ==
    {i \in 1..k :
        received[i].received_at > received[k].received_at - aggregation_window_sec}

\* Calls up to k made after the last escalation before k
Unconsumed(k) == {i \in 1..k : \A j \in i..(k - 1) : ~received[j].result.escalated}

HighRiskCalls(S) == {i \in S : received[i].risk_score > 60}

C5_TwoDistinctDrones ==
    \A k \in 1..Len(received) :
        received[k].result.escalated =>
            Cardinality(received[k].result.source_drones) >= 2

\* Three distinct Drones have each delivered risk 0.75 to a fresh Queen
\* within 60 seconds
ThreeDronesWithin60 ==
    /\ Len(received) = 3
    /\ \A k \in 1..3 : received[k].risk_score = 75
    /\ Cardinality({received[k].source : k \in 1..3}) = 3
    /\ received[3].received_at - received[1].received_at <= 60

C7_CountedInsideWindow ==
    \A k \in 1..Len(received) :
        received[k].result.escalated =>
            \A i \in 1..Len(received[k].counted) :
                received[k].counted[i].timestamp
                    > received[k].received_at - aggregation_window_sec

-----------------------------------------------------------------------------
(* Phase-1 watchdog: Phase1WatchdogLayer on one temperature sensor *)

temperature_min == -40
temperature_max == 120
temperature_dying_gasp == 100
flame_min == 0
flame_max == 1
frozen_threshold_hours == 5
black_box_buffer_seconds == 30
history_maxlen == 100

\* The readings handed to the watchdog, in whole degrees Celsius; None is a
\* missing signal
ReadingValues == {25, 26, 100, 105, -50}

\* An Optional number: Nothing is None, Some(x) is the number x
Nothing == <<>>
Some(x) == <<x>>

Min(a, b) == IF a < b THEN a ELSE b
Max(a, b) == IF a > b THEN a ELSE b

FlameSensor == "FLAME_001"

\* SensorReading.sensor_type of the readings a sensor sends
SensorType(sid) == IF sid = FlameSensor THEN "flame" ELSE "temperature"

\* config['sensor_ranges'][sensor_type]
sensor_ranges(sensor_type) ==
    IF sensor_type = "flame"
    THEN [min |-> flame_min, max |-> flame_max, dying_gasp |-> Nothing]
    ELSE [min |-> temperature_min, max |-> temperature_max,
          dying_gasp |-> Some(temperature_dying_gasp)]

\* SensorState(sensor_id=...)
SensorState ==
    [last_value |-> Nothing, last_timestamp |-> Nothing, history |-> <<>>,
     frozen_since |-> Nothing, is_broken |-> FALSE]

InitWatchdog ==
    [stats |-> [total_processed |-> 0, range_failures |-> 0, frozen_failures |-> 0,
                null_failures |-> 0, imputations |-> 0, dying_gasps |-> 0],
     trauma_level |-> 0, trauma_events |-> 0, last_decay |-> 0]

\* TraumaSystem.register_trauma, severity in percent
register_trauma(wd, severity) ==
    [wd EXCEPT !.trauma_events = @ + 1,
               !.trauma_level = Min(100, @ + (severity * 30) \div 100)]

\* A decay that does not stop at zero
apply_decay_Unclamped(wd) ==
    IF now - wd.last_decay >= 86400
    THEN [wd EXCEPT !.trauma_level = @ - (5 * (now - wd.last_decay)) \div 86400,
                    !.last_decay = now]
    ELSE wd

\* TraumaSystem.apply_decay
apply_decay(wd) ==
    IF now - wd.last_decay >= 86400
    THEN [wd EXCEPT !.trauma_level = Max(0, @ - (5 * (now - wd.last_decay)) \div 86400),
                    !.last_decay = now]
    ELSE wd

\* Phase1WatchdogLayer._get_black_box_data: the readings of the last
\* black_box_buffer_seconds, as <<value, timestamp>> pairs
get_black_box_data(states, sid) ==
    IF sid \notin DOMAIN states THEN <<>>
    ELSE SelectSeq(states[sid].history,
                   LAMBDA e : e[2] >= now - black_box_buffer_seconds)

\* Phase1WatchdogLayer._trigger_dying_gasp
trigger_dying_gasp(states, wd, sid) ==
    [states |-> IF sid \in DOMAIN states
                THEN [states EXCEPT ![sid].is_broken = TRUE] ELSE states,
     wd |-> register_trauma([wd EXCEPT !.stats.dying_gasps = @ + 1], 100),
     black_box |-> get_black_box_data(states, sid)]

\* Phase1WatchdogLayer._check_range
check_range(states, wd, sid, value) ==
    LET ranges == sensor_ranges(SensorType(sid)) IN
    IF ranges.dying_gasp # Nothing /\ value >= ranges.dying_gasp[1]
    THEN LET g == trigger_dying_gasp(states, wd, sid)
         IN [ok |-> FALSE, gasp |-> TRUE, states |-> g.states, wd |-> g.wd,
             black_box |-> g.black_box]
    ELSE IF value < ranges.min \/ value > ranges.max
    THEN [ok |-> FALSE, gasp |-> FALSE, states |-> states,
          wd |-> [wd EXCEPT !.stats.range_failures = @ + 1], black_box |-> <<>>]
    ELSE [ok |-> TRUE, gasp |-> FALSE, states |-> states, wd |-> wd,
          black_box |-> <<>>]

\* A frozen check that keeps the timer running when the value changes
check_frozen_KeepsTimer(states, wd, sid, value, ts) ==
    IF sid \notin DOMAIN states
    THEN [ok |-> TRUE, wd |-> wd,
          states |-> [m \in DOMAIN states \cup {sid} |->
                         IF m = sid THEN SensorState ELSE states[m]]]
    ELSE IF states[sid].last_value = Some(value)
    THEN IF states[sid].frozen_since = Nothing
         THEN [ok |-> TRUE, wd |-> wd,
               states |-> [states EXCEPT ![sid].frozen_since = Some(ts)]]
         ELSE IF ts - states[sid].frozen_since[1] >= frozen_threshold_hours * 3600
         THEN [ok |-> FALSE,
               wd |-> register_trauma(
                         [wd EXCEPT !.stats.frozen_failures = @ + 1], 50),
               states |-> [states EXCEPT ![sid].is_broken = TRUE]]
         ELSE [ok |-> TRUE, wd |-> wd, states |-> states]
    ELSE [ok |-> TRUE, wd |-> wd, states |-> states]

\* Phase1WatchdogLayer._check_frozen
check_frozen(states, wd, sid, value, ts) ==
    IF sid \notin DOMAIN states
    THEN [ok |-> TRUE, wd |-> wd,
          states |-> [m \in DOMAIN states \cup {sid} |->
                         IF m = sid THEN SensorState ELSE states[m]]]
    ELSE IF states[sid].last_value = Some(value)
    THEN IF states[sid].frozen_since = Nothing
         THEN [ok |-> TRUE, wd |-> wd,
               states |-> [states EXCEPT ![sid].frozen_since = Some(ts)]]
         ELSE IF ts - states[sid].frozen_since[1] >= frozen_threshold_hours * 3600
         THEN [ok |-> FALSE,
               wd |-> register_trauma(
                         [wd EXCEPT !.stats.frozen_failures = @ + 1], 50),
               states |-> [states EXCEPT ![sid].is_broken = TRUE]]
         ELSE [ok |-> TRUE, wd |-> wd, states |-> states]
    ELSE [ok |-> TRUE, wd |-> wd,
          states |-> [states EXCEPT ![sid].frozen_since = Nothing]]

\* deque(maxlen=100).append
DequeAppend(q, e) ==
    LET l == Append(q, e) IN IF Len(l) > history_maxlen THEN Tail(l) ELSE l

\* Phase1WatchdogLayer._update_sensor_state
update_sensor_state(states, sid, value, ts) ==
    LET st == IF sid \in DOMAIN states THEN states[sid] ELSE SensorState
        st2 == [st EXCEPT !.last_value = Some(value), !.last_timestamp = Some(ts),
                          !.history = DequeAppend(@, <<value, ts>>)]
    IN [m \in DOMAIN states \cup {sid} |-> IF m = sid THEN st2 ELSE states[m]]

\* Phase1WatchdogLayer._apply_trauma_context: the decayed trauma system and the
\* reliability score after the paranoid-mode penalty
trauma_reliability(wd, reliability) ==
    IF wd.trauma_level > 0
    THEN (reliability * (1000 - wd.trauma_level)) \div 1000
    ELSE reliability

RECURSIVE SumValues(_)
SumValues(h) == IF h = <<>> THEN 0 ELSE Head(h)[1] + SumValues(Tail(h))

LastN(h, n) == IF Len(h) <= n THEN h ELSE SubSeq(h, Len(h) - n + 1, Len(h))

\* An imputation that falls back on the ambient default for every sensor type
impute_missing_value_AlwaysDefault(states, sid) ==
    IF sid \in DOMAIN states /\ Len(states[sid].history) >= 2
    THEN LET recent == LastN(states[sid].history, 5)
         IN <<SumValues(recent) \div Len(recent), 70>>
    ELSE <<25, 50>>

\* VirtualSensorImputation.impute_missing_value with no other sensor's value
\* at hand: <<imputed value, confidence in percent>>; 'flame' has no default
impute_missing_value(states, sid) ==
    IF sid \in DOMAIN states /\ Len(states[sid].history) >= 2
    THEN LET recent == LastN(states[sid].history, 5)
         IN <<SumValues(recent) \div Len(recent), 70>>
    ELSE IF SensorType(sid) = "temperature" THEN <<25, 50>>
    ELSE <<0, 0>>

\* ValidationResult
ValidationResult(valid, value, reliability, imputed, failure) ==
    [is_valid |-> valid, value |-> value, reliability_score |-> reliability,
     is_imputed |-> imputed, failure_reason |-> failure]

\* Phase1WatchdogLayer.validate; reading is Nothing for a missing signal, else
\* Some(value), and ts is the reading's timestamp
validate(states, wd0, sid, reading, ts) ==
    LET wd == [wd0 EXCEPT !.stats.total_processed = @ + 1] IN
    IF reading # Nothing
    THEN LET value == reading[1]
             rng == check_range(states, wd, sid, value)
         IN
         IF ~rng.ok
         THEN [states |-> rng.states, wd |-> rng.wd, gasp |-> rng.gasp,
               black_box |-> rng.black_box,
               result |-> ValidationResult(FALSE, value, 0, FALSE,
                             IF rng.gasp THEN "DYING GASP" ELSE "Out of range")]
         ELSE LET frz == check_frozen(states, wd, sid, value, ts) IN
              IF ~frz.ok
              THEN [states |-> frz.states, wd |-> frz.wd, gasp |-> FALSE,
                    black_box |-> <<>>,
                    result |-> ValidationResult(FALSE, value, 0, FALSE, "Frozen")]
              ELSE LET wd2 == apply_decay(frz.wd) IN
                   [states |-> update_sensor_state(frz.states, sid, value, ts),
                    wd |-> wd2, gasp |-> FALSE, black_box |-> <<>>,
                    result |-> ValidationResult(TRUE, value,
                                  trauma_reliability(wd2, 100), FALSE, NoneVal)]
    ELSE LET imp == impute_missing_value(states, sid)
             wd1 == [wd EXCEPT !.stats.null_failures = @ + 1]
             wd2 == apply_decay([wd1 EXCEPT !.stats.imputations = @ + 1])
         IN IF imp[2] > 0
            THEN [states |-> states, wd |-> wd2, gasp |-> FALSE,
                  black_box |-> <<>>,
                  result |-> ValidationResult(TRUE, imp[1],
                                trauma_reliability(wd2, (imp[2] * 80) \div 100),
                                TRUE, NoneVal)]
            ELSE [states |-> states, wd |-> wd1, gasp |-> FALSE,
                  black_box |-> <<>>,
                  result |-> ValidationResult(FALSE, 0, 0, FALSE, "Signal missing")]

-----------------------------------------------------------------------------
(* Phase-6 communication: Phase6CommunicationLayer of the pipeline node *)

dying_gasp_temp_threshold == 100
trauma_decay_days == 7
default_node_temperature == 25
battery_level_default == 80

InitComm ==
    [alert_counter |-> 0, alerts_sent |-> <<>>,
     stats |-> [p1_alerts |-> 0, p2_alerts |-> 0, p3_alerts |-> 0,
                satellite_transmissions |-> 0, mesh_broadcasts |-> 0,
                death_vectors_computed |-> 0],
     global_trauma_level |-> 0, last_trauma_decay |-> 0, death_events |-> <<>>]

\* FireAlert; black_box is Nothing unless the alert carries one, and then its
\* sensor_history is a sequence of reading ages in seconds
FireAlert(kind, cnt, priority, channel, risk, conf, wit, gasp, black_box) ==
    [alert_id |-> <<kind, cnt>>, priority |-> priority, channel |-> channel,
     risk_score |-> risk, confidence |-> conf, witnesses |-> wit,
     dying_gasp |-> gasp, black_box |-> black_box,
     transmission_success |-> Nothing, fallback |-> Absent]

\* Phase6CommunicationLayer._decay_trauma
decay_trauma(c) ==
    IF now - c.last_trauma_decay >= 86400
    THEN [c EXCEPT !.global_trauma_level =
                       Max(0, @ - (100 * (now - c.last_trauma_decay))
                                     \div (trauma_decay_days * 86400)),
                   !.last_trauma_decay = now]
    ELSE c

\* What the satellite modem can report for one transmission.  The modem is
\* the hardware behind _transmit_satellite; the body kept in the repository
\* simulates it and reports success
SatelliteReports == BOOLEAN

\* Phase6CommunicationLayer._transmit_satellite: hands the alert to the
\* modem and returns its report sat
transmit_satellite(alert, sat) ==
    [ok |-> sat, tx |-> <<[alert_id |-> alert.alert_id, channel |-> "satellite", ok |-> sat]>>]

\* Phase6CommunicationLayer._transmit_lora_mesh
transmit_lora_mesh(alert) ==
    [ok |-> TRUE, tx |-> <<[alert_id |-> alert.alert_id, channel |-> "lora_mesh", ok |-> TRUE]>>]

\* Phase6CommunicationLayer._route_p1_critical
route_p1_critical(c, risk, conf, wit, sat) ==
    LET cnt == c.alert_counter + 1
        built == FireAlert("P1", cnt, "P1_CRITICAL", "satellite",
                           risk, conf, wit, FALSE, Nothing)
        s == transmit_satellite(built, sat)
        alert == IF s.ok
                 THEN [built EXCEPT !.transmission_success = Some(TRUE)]
                 ELSE [built EXCEPT !.channel = "lora_mesh",
                                    !.transmission_success = Some(FALSE),
                                    !.fallback = "lora_mesh"]
        tx == IF s.ok THEN s.tx ELSE s.tx \o transmit_lora_mesh(built).tx
    IN [alert |-> alert, tx |-> tx,
        comm |-> [c EXCEPT !.alert_counter = cnt,
                           !.stats.satellite_transmissions =
                               IF s.ok THEN @ + 1 ELSE @,
                           !.global_trauma_level = Min(100, @ + 30),
                           !.alerts_sent = Append(@, alert),
                           !.stats.p1_alerts = @ + 1]]

\* Phase6CommunicationLayer._route_p2_medium
route_p2_medium(c, risk, conf, wit) ==
    LET cnt == c.alert_counter + 1
        alert == FireAlert("P2", cnt, "P2_MEDIUM", "lora_mesh", risk, conf, wit,
                           FALSE, Nothing)
    IN [alert |-> alert, tx |-> transmit_lora_mesh(alert).tx,
        comm |-> [c EXCEPT !.alert_counter = cnt,
                           !.global_trauma_level = Min(100, @ + 15),
                           !.alerts_sent = Append(@, alert),
                           !.stats.p2_alerts = @ + 1,
                           !.stats.mesh_broadcasts = @ + 1]]

\* Phase6CommunicationLayer._route_p3_maintenance
route_p3_maintenance(c) ==
    LET cnt == c.alert_counter + 1
        alert == FireAlert("P3", cnt, "P3_MAINTENANCE", "lora_mesh", 0, 100, 0,
                           FALSE, Nothing)
    IN [alert |-> alert, tx |-> transmit_lora_mesh(alert).tx,
        comm |-> [c EXCEPT !.alert_counter = cnt,
                           !.alerts_sent = Append(@, alert),
                           !.stats.p3_alerts = @ + 1]]

\* Phase6CommunicationLayer._update_death_vectors, with every death at the
\* node's own location: a vector is computed once two deaths differ in time
update_death_vectors(c) ==
    IF Len(c.death_events) >= 2
       /\ c.death_events[Len(c.death_events)] - c.death_events[1] > 0
    THEN [c EXCEPT !.stats.death_vectors_computed = @ + 1]
    ELSE c

\* Phase6CommunicationLayer._execute_dying_gasp; sensor_history is the list
\* found under metadata['sensor_history'], or the empty list.  The report of
\* _transmit_satellite is not looked at
execute_dying_gasp(c, risk, conf, temperature, sensor_history, sat) ==
    LET cnt == c.alert_counter + 1
        black_box == Some([final_temperature |-> temperature,
                           sensor_history |-> sensor_history])
        alert == FireAlert("DYING_GASP", cnt, "P1_CRITICAL", "satellite",
                           risk, conf, 0, TRUE, black_box)
    IN [alert |-> alert, tx |-> transmit_satellite(alert, sat).tx,
        comm |-> update_death_vectors(
                    [c EXCEPT !.alert_counter = cnt,
                              !.death_events = Append(@, now)])]

\* Phase6CommunicationLayer.process_alert
process_alert(c0, risk, conf, should_alert, wit, node_temperature, battery, sensor_history, sat) ==
    LET c == decay_trauma(c0) IN
    IF node_temperature > dying_gasp_temp_threshold
    THEN execute_dying_gasp(c, risk, conf, node_temperature, sensor_history, sat)
    ELSE LET priority == determine_priority(risk, conf, wit, battery) IN
         IF priority = "P3_MAINTENANCE" THEN route_p3_maintenance(c)
         ELSE IF priority = "P2_MEDIUM" THEN route_p2_medium(c, risk, conf, wit)
         ELSE route_p1_critical(c, risk, conf, wit, sat)

-----------------------------------------------------------------------------
(* Phase 5: Phase5LogicGate.  Its scores are kept in points of 0.0001, so  *)
(* 0.30 is 3000 and 1.0 is 10000; products are rounded down to a point.    *)

witness_radius_meters == 500
min_witnesses == 1
trauma_decay == 95

\* Phase5LogicGate.__init__
InitLogic ==
    [trauma_level |-> 0, decisions_made |-> 0, alerts_triggered |-> 0,
     witness_protocols_activated |-> 0, false_alarm_flags |-> 0]

\* PhaseInputs, without the fields decide never reads (vision_confidence,
\* trauma_level, timestamp)
PhaseInputs(fire, agreement, trend, persistence, structure, hurst, unstable, lyapunov, camera, smoke) ==
    [fire_risk_score |-> fire, cross_modal_agreement |-> agreement,
     temporal_trend |-> trend, persistence |-> persistence,
     has_structure |-> structure, hurst_exponent |-> hurst,
     is_unstable |-> unstable, lyapunov_exponent |-> lyapunov,
     camera_healthy |-> camera, smoke_confidence |-> smoke]

\* LogicGateDecision
LogicGateDecision(tier, risk, state, alert, confidence, witnesses, interval) ==
    [risk_tier |-> tier, risk_score |-> risk, system_state |-> state,
     should_alert |-> alert, confidence |-> confidence, witnesses |-> witnesses,
     next_sample_interval |-> interval]

\* Phase5LogicGate._compute_risk_score
compute_risk_score(g, inputs) ==
    LET base_risk == (inputs.fire_risk_score * 40) \div 100
        structure_risk == IF inputs.has_structure
                          THEN ((inputs.hurst_exponent - 5000) * 15) \div 100
                          ELSE 0
        chaos_risk == IF inputs.is_unstable
                      THEN (Max(0, inputs.lyapunov_exponent) * 15) \div 100
                      ELSE 0
        vision_risk == IF inputs.camera_healthy
                       THEN (inputs.smoke_confidence * 20) \div 100
                       ELSE 0
        temporal_risk == (IF inputs.temporal_trend = "rising" THEN 500 ELSE 0)
                         + (IF inputs.persistence > 6000 THEN 500 ELSE 0)
        agreement_bonus == (inputs.cross_modal_agreement * 10) \div 100
        trauma_contribution == (g.trauma_level * 5) \div 100
        total_risk == base_risk + structure_risk + chaos_risk + vision_risk
                      + temporal_risk + agreement_bonus + trauma_contribution
    IN Max(0, Min(10000, total_risk))

\* A classifier that calls a risk of exactly 0.80 Orange
classify_risk_tier_RedAbove80(risk_score) ==
    IF risk_score < 3000 THEN "green"
    ELSE IF risk_score < 6000 THEN "yellow"
    ELSE IF risk_score <= 8000 THEN "orange"
    ELSE "red"

\* Phase5LogicGate._classify_risk_tier
classify_risk_tier(risk_score) ==
    IF risk_score < 3000 THEN "green"
    ELSE IF risk_score < 6000 THEN "yellow"
    ELSE IF risk_score < 8000 THEN "orange"
    ELSE "red"

\* Phase5LogicGate._handle_green_path
handle_green_path(g, risk_score) ==
    [gate |-> g,
     decision |-> LogicGateDecision("green", risk_score, "sleep", FALSE, 9500, 0, 300)]

\* Phase5LogicGate._handle_yellow_path
handle_yellow_path(g, risk_score) ==
    [gate |-> [g EXCEPT !.trauma_level = Min(10000, @ + 1000)],
     decision |-> LogicGateDecision("yellow", risk_score, "watchman", FALSE, 7000, 0, 1)]

\* Phase5LogicGate._execute_witness_protocol; a neighbour is a record whose
\* distance and risk_score are Nothing when the object lacks the attribute
execute_witness_protocol(neighbor_nodes) ==
    LET nearby == {i \in 1..Len(neighbor_nodes) :
                     /\ neighbor_nodes[i].distance # Nothing
                     /\ neighbor_nodes[i].distance[1] <= witness_radius_meters}
    IN Cardinality({i \in nearby :
                      /\ neighbor_nodes[i].risk_score # Nothing
                      /\ neighbor_nodes[i].risk_score[1] > 4000})

\* Phase5LogicGate._handle_orange_path; neighbor_nodes None and [] are both
\* the empty sequence
handle_orange_path(g0, risk_score, neighbor_nodes) ==
    LET g == [g0 EXCEPT !.witness_protocols_activated = @ + 1]
        witnesses_confirming == execute_witness_protocol(neighbor_nodes)
    IN IF Len(neighbor_nodes) = 0
       THEN [gate |-> [g EXCEPT !.false_alarm_flags = @ + 1,
                                !.trauma_level = Min(10000, @ + 2000)],
             decision |-> LogicGateDecision("orange", risk_score, "witness", FALSE,
                                            5000, 0, 2)]
       ELSE IF witnesses_confirming >= min_witnesses
       THEN [gate |-> [g EXCEPT !.trauma_level = Min(10000, @ + 3000)],
             decision |-> LogicGateDecision("red", Min(10000, risk_score + 1500),
                                            "confirmed", TRUE, 9000,
                                            witnesses_confirming, 1)]
       ELSE [gate |-> [g EXCEPT !.false_alarm_flags = @ + 1,
                                !.trauma_level = Min(10000, @ + 2000)],
             decision |-> LogicGateDecision("orange", (risk_score * 7) \div 10,
                                            "monitor", FALSE, 4000, 0, 5)]

\* Phase5LogicGate._handle_red_path
handle_red_path(g, risk_score) ==
    [gate |-> [g EXCEPT !.alerts_triggered = @ + 1,
                        !.trauma_level = Min(10000, @ + 3000)],
     decision |-> LogicGateDecision("red", risk_score, "confirmed", TRUE, 9500, 0, 1)]

\* Phase5LogicGate.decide; handled is the gate as the tier's handler leaves it
decide(g, inputs, neighbor_nodes) ==
    LET risk_score == compute_risk_score(g, inputs)
        risk_tier == classify_risk_tier(risk_score)
        h == IF risk_tier = "green" THEN handle_green_path(g, risk_score)
             ELSE IF risk_tier = "yellow" THEN handle_yellow_path(g, risk_score)
             ELSE IF risk_tier = "orange"
                  THEN handle_orange_path(g, risk_score, neighbor_nodes)
             ELSE handle_red_path(g, risk_score)
    IN [decision |-> h.decision, composite |-> risk_score, handled |-> h.gate,
        gate |-> [h.gate EXCEPT !.decisions_made = @ + 1,
                                !.trauma_level = (@ * trauma_decay) \div 100]]

\* A Phase-5 score handed to Phase 6 in whole percents, rounded up: Phase 6
\* only tests it with > against whole percents, which rounding up keeps
ToPercent(points) == (points + 99) \div 100

\* Inputs with composite risk 0.28, 0.40, 0.60, 0.75, 0.80 and 1.0 at a gate
\* without trauma
CalmInputs == PhaseInputs(7000, 0, "stable", 0, FALSE, 5000, FALSE, 0, TRUE, 0)
WarmInputs == PhaseInputs(10000, 0, "stable", 0, FALSE, 5000, FALSE, 0, FALSE, 10000)
SmokeInputs == PhaseInputs(10000, 0, "stable", 0, FALSE, 5000, FALSE, 0, TRUE, 10000)
RisingInputs == PhaseInputs(10000, 10000, "rising", 0, FALSE, 5000, FALSE, 0, TRUE, 10000)
BlazeInputs == PhaseInputs(10000, 10000, "rising", 7000, FALSE, 5000, FALSE, 0, TRUE, 10000)
InfernoInputs == PhaseInputs(10000, 10000, "rising", 7000, TRUE, 10000, TRUE, 10000, TRUE, 10000)
StormInputs == PhaseInputs(10000, 10000, "rising", 7000, FALSE, 5000, TRUE, 20000, FALSE, 0)

LogicInputs ==
    {CalmInputs, WarmInputs, SmokeInputs, RisingInputs, BlazeInputs, InfernoInputs}

\* Neighbour objects: at the edge of the witness radius and confirming, near
\* with risk exactly 0.40, out of the witness radius
Neighbors ==
    {[distance |-> Some(500), risk_score |-> Some(5000)],
     [distance |-> Some(100), risk_score |-> Some(4000)],
     [distance |-> Some(600), risk_score |-> Some(9000)]}

NeighborLists == UNION {[1..n -> Neighbors] : n \in 0..MaxNeighbors}

NoDecision ==
    [called |-> FALSE, inputs |-> CalmInputs, neighbor_nodes |-> <<>>,
     composite |-> 0, trauma_before |-> 0, trauma_handled |-> 0,
     alerts_returned |-> 0,
     decision |-> LogicGateDecision(NoneVal, 0, NoneVal, FALSE, 0, 0, 0)]

\* What a decide call leaves behind; alerts_returned counts the Decisions
\* returned so far with should_alert set
DecisionRecord(g, inputs, neighbor_nodes, r) ==
    [called |-> TRUE, inputs |-> inputs, neighbor_nodes |-> neighbor_nodes,
     composite |-> r.composite, trauma_before |-> g.trauma_level,
     trauma_handled |-> r.handled.trauma_level,
     alerts_returned |-> lastDecision.alerts_returned
                           + (IF r.decision.should_alert THEN 1 ELSE 0),
     decision |-> r.decision]

LogicInit ==
    /\ logic = InitLogic
    /\ lastDecision = NoDecision

\* Phase5LogicGate.decide called directly
Decide(inputs, neighbor_nodes) ==
    /\ logic.decisions_made < MaxDecisions
    /\ LET r == decide(logic, inputs, neighbor_nodes)
       IN /\ logic' = r.gate
          /\ lastDecision' = DecisionRecord(logic, inputs, neighbor_nodes, r)
    /\ UNCHANGED <<meshVars, queenVars, sensor_states, watchdog, comm, iteration,
                   gasped, lastValidate, lastCycle, pipeVars, otherVars>>

LogicNext ==
    \E inputs \in LogicInputs : \E neighbor_nodes \in NeighborLists :
       Decide(inputs, neighbor_nodes)

-----------------------------------------------------------------------------
(* Phase 0: fusion, with and without the temporal SSM. Scores, trends and
   confidences are in points of 0.0001. The modality processors and the hidden
   state of the SSM are inputs: what reaches the fire decision is computed *)

fire_risk_threshold_high == 8500
fire_risk_threshold_medium == 7000
agreement_threshold == 6000
confidence_threshold == 5000
smoothing_alpha == 7000
ssm_history_maxlen == 60

Magnitude(x) == IF x < 0 THEN 0 - x ELSE x

\* The largest r in lo..hi with r * r <= n
RECURSIVE RootBetween(_, _, _)
RootBetween(n, lo, hi) ==
    IF lo >= hi THEN lo
    ELSE LET mid == (lo + hi + 1) \div 2
         IN IF mid * mid <= n THEN RootBetween(n, mid, hi)
            ELSE RootBetween(n, lo, mid - 1)

\* Nine times np.var of three values
Variance9(a, b, c) == 3 * (a * a + b * b + c * c) - (a + b + c) * (a + b + c)

\* np.std of three values
Std3(a, b, c) == RootBetween(Variance9(a, b, c), 0, 30000) \div 3

\* EnvironmentalState: the fields the decision rules read and write
EnvironmentalState(engine, risk, agreement, confidence, fire, trend, persistence, lag, chemical, visual) ==
    [called |-> TRUE, engine |-> engine, fire_risk_score |-> risk,
     cross_modal_agreement |-> agreement, overall_confidence |-> confidence,
     fire_detected |-> fire, trend |-> trend, persistence |-> persistence,
     cross_modal_lag |-> lag, chemical_score |-> chemical,
     visual_score |-> visual]

\* Phase0FusionEngine._make_fire_decision
make_fire_decision(fire_risk, agreement, confidence) ==
    IF confidence < confidence_threshold THEN FALSE
    ELSE IF fire_risk > fire_risk_threshold_high THEN TRUE
    ELSE IF fire_risk > fire_risk_threshold_medium /\ agreement > agreement_threshold
         THEN TRUE
         ELSE FALSE

\* Phase0FusionEngine._apply_temporal_smoothing
apply_temporal_smoothing(current_risk, previous_risk) ==
    (smoothing_alpha * current_risk + (10000 - smoothing_alpha) * previous_risk)
       \div 10000

\* Phase0FusionEngine.__init__
InitFusion == [last_risk |-> Nothing, total_fusions |-> 0, fires_detected |-> 0]

\* Phase0FusionEngine.fuse, from what its helpers computed of the sensors: the
\* engine after the call and the state returned
fuse(e, fire_risk, agreement, confidence) ==
    LET fire_risk_score == IF e.last_risk # Nothing
                           THEN apply_temporal_smoothing(fire_risk, e.last_risk[1])
                           ELSE fire_risk
        fire_detected == make_fire_decision(fire_risk_score, agreement, confidence)
    IN [engine |-> [last_risk |-> Some(fire_risk_score),
                    total_fusions |-> e.total_fusions + 1,
                    fires_detected |-> e.fires_detected
                                       + (IF fire_detected THEN 1 ELSE 0)],
        state |-> EnvironmentalState("snapshot", fire_risk_score, agreement,
                                     confidence, fire_detected, "stable", 0, 0,
                                     0, 0)]

\* MambaSSM.__init__ with its TemporalState
InitSSM ==
    [history_len |-> 0, prev_inputs |-> <<0, 0, 0>>,
     chemical_trend |-> 0, visual_trend |-> 0, environmental_trend |-> 0,
     chemical_persistence |-> 0, visual_persistence |-> 0,
     cross_modal_lag |-> 0, temporal_confidence |-> 0]

\* MambaSSM._compute_trends: one trend, an average that moves a tenth of the
\* way to the last change
compute_trend(m, current, previous, prev_trend) ==
    IF m.history_len = 0 THEN 0
    ELSE (1000 * (current - previous) + 9000 * prev_trend) \div 10000

\* MambaSSM._compute_persistence: one persistence
ssm_persistence(current, prev_persistence) ==
    IF current > 5000 THEN Min(10000, prev_persistence + 500)
    ELSE (prev_persistence * 95) \div 100

\* MambaSSM._compute_temporal_confidence. stability is 1 / (1 + variance of the
\* last five hidden states), read only once the buffer holds more than five
compute_temporal_confidence(m, stability) ==
    LET history_factor == Min(10000, (m.history_len * 10000) \div 30)
        stability_factor == IF m.history_len > 5 THEN stability ELSE 5000
        clarity_factor == Min(10000, Magnitude(m.chemical_trend)
                                     + Magnitude(m.visual_trend))
    IN (4 * history_factor + 4 * stability_factor + 2 * clarity_factor) \div 10

\* MambaSSM.update. lag is what _compute_cross_modal_lag makes of the buffered
\* spikes, read only once the buffer holds twenty entries
ssm_update(m, inputs, stability, lag) ==
    [history_len |-> Min(ssm_history_maxlen, m.history_len + 1),
     prev_inputs |-> inputs,
     chemical_trend |-> compute_trend(m, inputs[1], m.prev_inputs[1], m.chemical_trend),
     visual_trend |-> compute_trend(m, inputs[2], m.prev_inputs[2], m.visual_trend),
     environmental_trend |-> compute_trend(m, inputs[3], m.prev_inputs[3],
                                           m.environmental_trend),
     chemical_persistence |-> ssm_persistence(inputs[1], m.chemical_persistence),
     visual_persistence |-> ssm_persistence(inputs[2], m.visual_persistence),
     cross_modal_lag |-> IF m.history_len < 20 THEN 0 ELSE lag,
     temporal_confidence |-> compute_temporal_confidence(m, stability)]

\* MambaSSM.get_perceptual_score. base_score is (tanh(C @ h) + 1) / 2, with C
\* and B drawn at random when the SSM is built
get_perceptual_score(m, base_score) ==
    LET trend_boost == (IF m.chemical_trend > 1000 THEN 1000 ELSE 0)
                       + (IF m.visual_trend > 1000 THEN 500 ELSE 0)
        persistence_boost == (m.chemical_persistence * 10
                              + m.visual_persistence * 5) \div 100
        lag_boost == IF 10 < m.cross_modal_lag /\ m.cross_modal_lag < 30
                     THEN 1500 ELSE 0
        fused_score == base_score + trend_boost + persistence_boost + lag_boost
        avg_trend == (m.chemical_trend * 5 + m.visual_trend * 3
                      + m.environmental_trend * 2) \div 10
        trend_agreement == 10000 - Std3(m.chemical_trend, m.visual_trend,
                                        m.environmental_trend)
    IN [fused_score |-> Min(10000, Max(0, fused_score)),
        trend |-> IF avg_trend > 500 THEN "rising"
                  ELSE IF avg_trend < -500 THEN "falling" ELSE "stable",
        confidence |-> m.temporal_confidence,
        modality_agreement |-> Max(0, Min(10000, trend_agreement)),
        persistence |-> Max(m.chemical_persistence, m.visual_persistence),
        cross_modal_lag |-> m.cross_modal_lag]

\* Phase0FusionEngineWithMamba.fuse, from the modality scores of the sensors and
\* the mean of their reliability scores: the SSM after the call and the state
\* returned
mamba_fuse(m, inputs, base_score, base_confidence, stability, lag) ==
    LET m1 == ssm_update(m, inputs, stability, lag)
        perceptual == get_perceptual_score(m1, base_score)
        trend_multiplier == IF perceptual.trend = "rising" THEN 12000
                            ELSE IF perceptual.trend = "falling" THEN 8000
                            ELSE 10000
        persistence_multiplier == 10000 + (perceptual.persistence * 3) \div 10
        lag_multiplier == IF 10 < perceptual.cross_modal_lag
                             /\ perceptual.cross_modal_lag < 30
                          THEN 13000 ELSE 10000
        product == (((perceptual.fused_score * trend_multiplier) \div 10000)
                    * persistence_multiplier) \div 10000
        fire_risk_score == Min(10000, (product * lag_multiplier) \div 10000)
        snapshot_variance == Variance9(inputs[1], inputs[2], inputs[3]) \div 9
        snapshot_agreement == 10000 - Min(snapshot_variance \div 2500, 10000)
        cross_modal_agreement == (6 * snapshot_agreement
                                  + 4 * perceptual.modality_agreement) \div 10
        overall_confidence == (base_confidence + perceptual.confidence) \div 2
        fire_detected ==
            \/ fire_risk_score > 8500
            \/ fire_risk_score > 7000 /\ cross_modal_agreement > 6000
            \/ /\ perceptual.trend = "rising"
               /\ perceptual.persistence > 6000
               /\ fire_risk_score > 6000
            \/ /\ perceptual.cross_modal_lag > 15
               /\ inputs[1] > 7000
               /\ inputs[2] > 5000
    IN [ssm |-> m1,
        state |-> EnvironmentalState("mamba", fire_risk_score,
                                     cross_modal_agreement, overall_confidence,
                                     fire_detected, perceptual.trend,
                                     perceptual.persistence,
                                     perceptual.cross_modal_lag, inputs[1],
                                     inputs[2])]

\* Modality scores <<chemical, visual, environmental>> of a reading:
\* chemistry and vision just elevated, all three at their maximum
ModalityScores == {<<5100, 5100, 0>>, <<10000, 10000, 10000>>}

\* Base scores of a freshly drawn SSM: near 0.5
BaseScores == {4900, 5100}

\* Mean reliability of the validated sensors: degraded, and the default 0.5
\* taken when no sensor carries a reliability score
BaseConfidences == {3000, 5000}

\* Stability factors of the hidden state
Stabilities == {8000, 10000}

\* Lags between the first chemical and the first visual spike
Lags == {0, 20}

\* What the helpers of Phase0FusionEngine compute of the sensors
FusedRisks == {6000, 9000}
Agreements == {5000, 7000}
Confidences == {4000, 5000}

NoFuse ==
    [called |-> FALSE, engine |-> NoneVal, fire_risk_score |-> 0,
     cross_modal_agreement |-> 0, overall_confidence |-> 0,
     fire_detected |-> FALSE, trend |-> "stable", persistence |-> 0,
     cross_modal_lag |-> 0, chemical_score |-> 0, visual_score |-> 0]

FusionInit ==
    /\ fusion = InitFusion
    /\ ssm = InitSSM
    /\ lastFuse = NoFuse

\* Phase0FusionEngine.fuse called, on a node built with the snapshot engine
Fuse(fire_risk, agreement, confidence) ==
    /\ ssm.history_len = 0
    /\ fusion.total_fusions < MaxBaseFusions
    /\ LET r == fuse(fusion, fire_risk, agreement, confidence)
       IN /\ fusion' = r.engine
          /\ lastFuse' = r.state
    /\ UNCHANGED <<meshVars, queenVars, sensor_states, watchdog, comm, iteration,
                   gasped, lastValidate, lastCycle, logicVars, pipeVars, ssm,
                   threadVars>>

\* Phase0FusionEngineWithMamba.fuse called, on a node built with the SSM engine
MambaFuse(inputs, base_score, base_confidence, stability, lag) ==
    /\ fusion.total_fusions = 0
    /\ ssm.history_len < MaxFusions
    /\ LET r == mamba_fuse(ssm, inputs, base_score, base_confidence, stability, lag)
       IN /\ ssm' = r.ssm
          /\ lastFuse' = r.state
    /\ UNCHANGED <<meshVars, queenVars, sensor_states, watchdog, comm, iteration,
                   gasped, lastValidate, lastCycle, logicVars, pipeVars, fusion,
                   threadVars>>

FusionNext ==
    \/ \E fire_risk \in FusedRisks : \E agreement \in Agreements :
          \E confidence \in Confidences : Fuse(fire_risk, agreement, confidence)
    \/ \E inputs \in ModalityScores : \E base_score \in BaseScores :
          \E base_confidence \in BaseConfidences :
             \E stability \in Stabilities : \E lag \in Lags :
                   MambaFuse(inputs, base_score, base_confidence, stability, lag)

-----------------------------------------------------------------------------
(* Phase 2: the fractal gate (Phase2FractalGate). Hurst exponents and their
   thresholds are in points of 0.0001, trauma levels in percent, and a
   confidence is a number of sixtieths: the code computes min(1.0, n / 60.0) *)

base_hurst_threshold == 11000
min_window_size == 30
max_window_size == 120

\* Phase2FractalGate.__init__. history_len is len(self.risk_score_history); the
\* scores themselves enter update through what the R/S analysis makes of them
InitFractal ==
    [history_len |-> 0, last_analysis |-> Nothing, current_trauma_level |-> 0]

\* FractalAnalysisResult
FractalAnalysisResult(hurst, structure, persistence, confidence, trauma, threshold, window) ==
    [hurst_exponent |-> hurst, has_structure |-> structure,
     persistence |-> persistence, confidence |-> confidence,
     trauma_level |-> trauma, adaptive_threshold |-> threshold,
     base_threshold |-> base_hurst_threshold, window_size |-> window]

\* Phase2FractalGate._compute_adaptive_threshold
compute_adaptive_threshold(trauma_level) ==
    LET trauma_clamped == Max(0, Min(100, trauma_level))
        adaptive_threshold == (base_hurst_threshold * (110 - trauma_clamped)) \div 100
    IN Max(500, Min((base_hurst_threshold * 110) \div 100, adaptive_threshold))

\* Phase2FractalGate._compute_hurst_exponent on a buffer of n scores. series is
\* Nothing when the scores have no spread (S == 0 or R == 0), else
\* Some(log(R/S) / log(n)) before the clamp. Returns <<hurst, confidence>>
compute_hurst_exponent(n, series) ==
    IF n < min_window_size THEN <<5000, 0>>
    ELSE IF series = Nothing THEN <<5000, 0>>
    ELSE <<Max(0, Min(20000, series[1])), Min(60, n)>>

\* Phase2FractalGate._compute_persistence
compute_persistence(hurst) == Max(0, Min(10000, hurst - 5000))

\* Phase2FractalGate.update: the gate after the call and the result returned
update(g, series, trauma_level) ==
    LET n == Min(g.history_len + 1, max_window_size)
        g1 == [g EXCEPT !.current_trauma_level = trauma_level, !.history_len = n]
        adaptive_threshold == compute_adaptive_threshold(trauma_level)
        hc == compute_hurst_exponent(n, series)
        has_structure == hc[1] > adaptive_threshold /\ hc[2] > 36
        result == FractalAnalysisResult(hc[1], has_structure,
                                        compute_persistence(hc[1]), hc[2],
                                        trauma_level, adaptive_threshold, n)
    IN IF n < min_window_size
       THEN [gate |-> g1,
             result |-> FractalAnalysisResult(5000, FALSE, 0, 0, trauma_level,
                                              adaptive_threshold, n)]
       ELSE [gate |-> [g1 EXCEPT !.last_analysis = Some(result)],
             result |-> result]

\* Phase2FractalGate.reset
reset(g) ==
    [g EXCEPT !.history_len = 0, !.last_analysis = Nothing,
              !.current_trauma_level = 0]

\* A hook that activates vision on has_structure alone
should_activate_vision_StructureOnly(g) ==
    IF g.last_analysis = Nothing THEN FALSE
    ELSE g.last_analysis[1].has_structure

\* Phase2FractalGate.should_activate_vision
should_activate_vision(g) ==
    IF g.last_analysis = Nothing THEN FALSE
    ELSE g.last_analysis[1].has_structure /\ g.last_analysis[1].confidence > 42

\* Step 6 of process_cycle: Phase 4 is called when the gate activates vision and
\* a camera sensor gave a value. Phase4VisionMamba defines process and no
\* process_frame, so the call raises AttributeError
vision_stage(g, camera_data) ==
    LET called == should_activate_vision(g) /\ camera_data # Nothing
    IN [called |-> called, raised |-> called]

\* What the R/S analysis can make of a buffer: no spread, below the clamp,
\* persistent, exactly the calm threshold 1.21, above the clamp
HurstSeries == {Nothing, Some(-1000), Some(7000), Some(12100), Some(25000)}

\* Trauma levels callers pass to update: none (the default), 0.5, above 1.0
TraumaLevels == {0, 50, 150}

\* Values of a camera sensor: none, a frame
CameraData == {Nothing, Some(1)}

NoFractal ==
    [op |-> "none", series |-> Nothing, trauma_level |-> 0, result |-> Nothing,
     camera_data |-> Nothing, vision_called |-> FALSE]

FractalInit ==
    /\ fractal = InitFractal
    /\ lastFractal = NoFractal

\* Phase2FractalGate.update called with one more risk score
FractalUpdate(series, trauma_level) ==
    /\ fractal.history_len < MaxSamples
    /\ LET u == update(fractal, series, trauma_level)
       IN /\ fractal' = u.gate
          /\ lastFractal' = [NoFractal EXCEPT !.op = "update", !.series = series,
                                              !.trauma_level = trauma_level,
                                              !.result = Some(u.result)]
    /\ UNCHANGED <<meshVars, queenVars, sensor_states, watchdog, comm, iteration,
                   gasped, lastValidate, lastCycle, logicVars, monitor,
                   otherVars>>

\* Phase2FractalGate.reset called
FractalReset ==
    /\ fractal' = reset(fractal)
    /\ lastFractal' = [NoFractal EXCEPT !.op = "reset"]
    /\ UNCHANGED <<meshVars, queenVars, sensor_states, watchdog, comm, iteration,
                   gasped, lastValidate, lastCycle, logicVars, monitor,
                   otherVars>>

\* The vision stage of a cycle, on the gate as the cycle's update left it
VisionStage(camera_data) ==
    /\ lastFractal.op = "update"
    /\ lastFractal' = [NoFractal EXCEPT
                         !.op = "vision", !.camera_data = camera_data,
                         !.vision_called = vision_stage(fractal, camera_data).called]
    /\ UNCHANGED <<meshVars, queenVars, sensor_states, watchdog, comm, iteration,
                   gasped, lastValidate, lastCycle, logicVars, fractal, monitor,
                   otherVars>>

FractalNext ==
    \/ \E series \in HurstSeries : \E trauma_level \in TraumaLevels :
          FractalUpdate(series, trauma_level)
    \/ FractalReset
    \/ \E camera_data \in CameraData : VisionStage(camera_data)

-----------------------------------------------------------------------------
(* The pipeline node: Complete6PhaseFireDetectionSystem with its defaults *)

TempSensor == "TEMP_001"

Readings == {Some(x) : x \in ReadingValues} \cup {Nothing}

\* Readings sent to a watchdog of its own: temperatures in and out of range,
\* a flame reading and a missing flame reading
TemperatureReadings == {Some(25), Some(26), Some(-50)}
FlameReadings == {Some(1), Nothing}

\* What the analytic phases hand to Phase 5 in a cycle
CycleInputs == {CalmInputs, StormInputs}

\* Arguments of a direct process_alert call: risk, confidence, should_alert,
\* witnesses
AlertArguments ==
    {[risk_score |-> 20, confidence |-> 50, should_alert |-> FALSE, witnesses |-> 0],
     [risk_score |-> 90, confidence |-> 90, should_alert |-> TRUE, witnesses |-> 1]}

\* Lists a caller passes as metadata['sensor_history']: ages of the readings
SensorHistories == {<<10, 20>>, <<10, 90>>}

NoValidate ==
    [called |-> FALSE, sensor_id |-> NoneVal, reading |-> Nothing, at |-> 0,
     state_before |-> Nothing,
     after_gasp |-> FALSE, first_reading |-> FALSE, gasp |-> FALSE,
     black_box |-> <<>>, result |-> ValidationResult(FALSE, 0, 0, FALSE, NoneVal)]

NoCycle == [called |-> FALSE, via |-> NoneVal, temperature |-> Nothing,
            should_alert |-> FALSE, decision |-> Nothing, emitted |-> <<>>,
            tx |-> <<>>]

\* What a validate call leaves behind; state_before is the sensor's
\* SensorState when the call was made
ValidateRecord(sid, reading, v) ==
    [called |-> TRUE, sensor_id |-> sid, reading |-> reading, at |-> now,
     state_before |-> IF sid \in DOMAIN sensor_states
                      THEN Some(sensor_states[sid]) ELSE Nothing,
     after_gasp |-> sid \in gasped,
     first_reading |-> sid \notin DOMAIN sensor_states,
     gasp |-> v.gasp, black_box |-> v.black_box, result |-> v.result]

NodeInit ==
    /\ sensor_states = <<>>
    /\ watchdog = InitWatchdog
    /\ comm = InitComm
    /\ iteration = 0
    /\ gasped = {}
    /\ lastValidate = NoValidate
    /\ lastCycle = NoCycle

\* Phase1WatchdogLayer.validate called with a reading stamped now, or None
Validate(sid, reading) ==
    /\ watchdog.stats.total_processed < MaxReadings
    /\ LET v == validate(sensor_states, watchdog, sid, reading, now)
       IN /\ sensor_states' = v.states
          /\ watchdog' = v.wd
          /\ gasped' = IF v.gasp THEN gasped \cup {sid} ELSE gasped
          /\ lastValidate' = ValidateRecord(sid, reading, v)
    /\ UNCHANGED <<meshVars, queenVars, comm, iteration, lastCycle, logicVars,
                   pipeVars, otherVars>>

\* Stages of process_cycle that an input of the model makes raise: none, the
\* sensor interface's read_sensors, Phase 0's fuse
StageFailures == {NoneVal, "read_sensors", "phase0"}

\* The stage whose exception leaves process_cycle, NoneVal when the cycle
\* returns: process_cycle has no handler of its own
cycle_raises(g, inputs, camera_data, failure) ==
    IF failure # NoneVal THEN failure
    ELSE IF vision_stage(update(g, Some(inputs.hurst_exponent), 0).gate,
                         camera_data).raised
         THEN "phase4"
         ELSE NoneVal

\* The body of process_cycle: the temperature sensor gives reading (Nothing: no
\* reading), Phases 0 and 3 hand inputs on, the fractal gate is updated without
\* a trauma level, vision is gated, Phase 5 decides without neighbours and
\* Phase 6 routes. A stage that raises ends the cycle where it stands
CycleStep(reading, inputs, sat, camera_data, failure) ==
    LET v == IF reading = Nothing
             THEN [states |-> sensor_states, wd |-> watchdog, gasp |-> FALSE,
                   black_box |-> <<>>,
                   result |-> ValidationResult(FALSE, 0, 0, FALSE, NoneVal)]
             ELSE validate(sensor_states, watchdog, TempSensor, reading, now)
        kept == reading # Nothing /\ (v.result.is_valid \/ v.result.is_imputed)
        node_temp == IF kept THEN v.result.value ELSE default_node_temperature
        f == update(fractal, Some(inputs.hurst_exponent), 0)
        vision == vision_stage(f.gate, camera_data)
        phase_inputs == [inputs EXCEPT !.has_structure = f.result.has_structure,
                                       !.hurst_exponent = f.result.hurst_exponent,
                                       !.camera_healthy = FALSE,
                                       !.smoke_confidence = 0]
        r == decide(logic, phase_inputs, <<>>)
        d == r.decision
        a == process_alert(comm, ToPercent(d.risk_score), ToPercent(d.confidence),
                           d.should_alert, d.witnesses, node_temp,
                           battery_level_default, <<>>, sat)
        raised == cycle_raises(fractal, inputs, camera_data, failure)
    IN /\ iteration' = iteration + 1
       /\ IF raised = "read_sensors"
          THEN UNCHANGED <<sensor_states, watchdog, gasped, lastValidate>>
          ELSE /\ sensor_states' = v.states
               /\ watchdog' = v.wd
               /\ gasped' = IF v.gasp THEN gasped \cup {TempSensor} ELSE gasped
               /\ lastValidate' = IF reading = Nothing THEN lastValidate
                                  ELSE ValidateRecord(TempSensor, reading, v)
       /\ IF raised \in {"read_sensors", "phase0"}
          THEN UNCHANGED <<fractal, lastFractal>>
          ELSE /\ fractal' = f.gate
               /\ lastFractal' = [NoFractal EXCEPT
                                    !.op = "cycle",
                                    !.series = Some(inputs.hurst_exponent),
                                    !.result = Some(f.result),
                                    !.camera_data = camera_data,
                                    !.vision_called = vision.called]
       /\ IF raised # NoneVal
          THEN UNCHANGED <<logic, lastDecision, comm, lastCycle>>
          ELSE /\ logic' = r.gate
               /\ lastDecision' = DecisionRecord(logic, phase_inputs, <<>>, r)
               /\ comm' = a.comm
               /\ lastCycle' = [called |-> TRUE, via |-> "process_cycle",
                                temperature |-> reading,
                                should_alert |-> d.should_alert,
                                decision |-> Some(d),
                                emitted |-> <<a.alert>>, tx |-> a.tx]

\* process_cycle called once on the node with its mock sensors, none of which
\* is a camera, and returning
ProcessCycle(reading, inputs, sat) ==
    /\ watchdog.stats.total_processed < MaxReadings
    /\ comm.alert_counter < MaxAlerts
    /\ CycleStep(reading, inputs, sat, Nothing, NoneVal)
    /\ UNCHANGED <<meshVars, queenVars, monitor, otherVars>>

\* Complete6PhaseFireDetectionSystem before run_continuous_monitoring is called
InitMonitor == [state |-> "idle", ended_by |-> NoneVal, cycles |-> 0]

MonitorInit == monitor = InitMonitor

\* run_continuous_monitoring is called and enters its loop
StartMonitoring ==
    /\ monitor.state = "idle"
    /\ monitor' = [monitor EXCEPT !.state = "running"]
    /\ UNCHANGED <<meshVars, queenVars, sensor_states, watchdog, comm, iteration,
                   gasped, lastValidate, lastCycle, logicVars, fractal, lastFractal,
                   otherVars>>

\* One pass of the loop of run_continuous_monitoring. The loop catches
\* KeyboardInterrupt only: any other exception leaves the loop, runs _shutdown
\* in the finally clause and reaches the caller
LoopCycle(reading, inputs, sat, camera_data, failure) ==
    /\ monitor.state = "running"
    /\ watchdog.stats.total_processed < MaxReadings
    /\ comm.alert_counter < MaxAlerts
    /\ CycleStep(reading, inputs, sat, camera_data, failure)
    /\ LET raised == cycle_raises(fractal, inputs, camera_data, failure)
       IN monitor' = IF raised = NoneVal
                     THEN [monitor EXCEPT !.cycles = @ + 1]
                     ELSE [monitor EXCEPT !.state = "stopped", !.ended_by = raised]
    /\ UNCHANGED <<meshVars, queenVars, otherVars>>

\* Ctrl+C: KeyboardInterrupt is caught and _shutdown runs
Interrupt ==
    /\ monitor.state = "running"
    /\ monitor' = [monitor EXCEPT !.state = "stopped",
                                  !.ended_by = "KeyboardInterrupt"]
    /\ UNCHANGED <<meshVars, queenVars, sensor_states, watchdog, comm, iteration,
                   gasped, lastValidate, lastCycle, logicVars, fractal, lastFractal,
                   otherVars>>

\* Phase6CommunicationLayer.process_alert called directly
CommProcessAlert(temperature, d, sensor_history, sat) ==
    /\ comm.alert_counter < MaxAlerts
    /\ LET a == process_alert(comm, d.risk_score, d.confidence, d.should_alert,
                              d.witnesses, temperature, 100, sensor_history, sat)
       IN /\ comm' = a.comm
          /\ lastCycle' = [called |-> TRUE, via |-> "process_alert",
                           temperature |-> Some(temperature),
                           should_alert |-> d.should_alert, decision |-> Nothing,
                           emitted |-> <<a.alert>>, tx |-> a.tx]
    /\ UNCHANGED <<meshVars, queenVars, sensor_states, watchdog, iteration, gasped,
                   lastValidate, logicVars, pipeVars, otherVars>>

\* Phase1WatchdogLayer.validate called on a watchdog of its own, as the
\* watchdog tests do
WatchdogValidate(sid, reading) ==
    /\ watchdog.stats.total_processed < MaxWatchdogReadings
    /\ LET v == validate(sensor_states, watchdog, sid, reading, now)
       IN /\ sensor_states' = v.states
          /\ watchdog' = v.wd
          /\ gasped' = IF v.gasp THEN gasped \cup {sid} ELSE gasped
          /\ lastValidate' = ValidateRecord(sid, reading, v)
    /\ UNCHANGED <<meshVars, queenVars, comm, iteration, lastCycle, logicVars,
                   pipeVars, otherVars>>

\* Hours pass between readings
HourTick(h) ==
    /\ now + h * 3600 <= MaxHours * 3600
    /\ now' = now + h * 3600
    /\ UNCHANGED <<meshVars, received, lastReceive, nodeVars>>

WatchdogNext ==
    \/ \E reading \in TemperatureReadings : WatchdogValidate(TempSensor, reading)
    \/ \E reading \in FlameReadings : WatchdogValidate(FlameSensor, reading)
    \/ \E h \in {1, 5} : HourTick(h)

\* Severities passed to register_trauma: its documented range, 0.0 to 1.0
Severities == {0, 50, 100}

\* TraumaSystem.register_trauma called on the watchdog's trauma system
RegisterTrauma(severity) ==
    /\ watchdog.trauma_events < MaxTraumaEvents
    /\ watchdog' = register_trauma(watchdog, severity)
    /\ UNCHANGED <<meshVars, queenVars, sensor_states, comm, iteration, gasped,
                   lastValidate, lastCycle, logicVars, pipeVars, otherVars>>

\* TraumaSystem.apply_decay called on the watchdog's trauma system
ApplyDecay ==
    /\ watchdog' = apply_decay(watchdog)
    /\ UNCHANGED <<meshVars, queenVars, sensor_states, comm, iteration, gasped,
                   lastValidate, lastCycle, logicVars, pipeVars, otherVars>>

\* Days pass
DayTick(d) ==
    /\ now + d * 86400 <= MaxDays * 86400
    /\ now' = now + d * 86400
    /\ UNCHANGED <<meshVars, received, lastReceive, nodeVars>>

TraumaNext ==
    \/ \E severity \in Severities : RegisterTrauma(severity)
    \/ ApplyDecay
    \/ \E reading \in {Some(25), Some(105)} : WatchdogValidate(TempSensor, reading)
    \/ \E d \in {1, 3} : DayTick(d)

\* Time passes at the node
NodeTick(d) ==
    /\ now + d <= MaxTime
    /\ now' = now + d
    /\ UNCHANGED <<meshVars, received, lastReceive, nodeVars>>

NodeNext ==
    \/ \E reading \in Readings : Validate(TempSensor, reading)
    \/ \E reading \in Readings : \E inputs \in CycleInputs :
          \E sat \in SatelliteReports : ProcessCycle(reading, inputs, sat)
    \/ NodeTick(300)

-----------------------------------------------------------------------------
(* MeshNetwork called from several threads. MeshNetwork holds no lock: a    *)
(* route_message call is a sequence of separate reads and writes of the     *)
(* shared dicts, and the calls of other threads fall between them.          *)

Threads == {"T1", "T2"}

\* The statistics _route_drone_to_queen increments, in statement order
RoutedCounters == <<"messages_routed", "drone_to_queen", "relay_hops_total">>

IdleThread == [pc |-> "idle", h |-> 0, k |-> 0, tmp |-> 0, ret |-> NoneVal]

ThreadInit == threads = [t \in Threads |-> IdleThread]

\* route_message up to the statistics: the source joins relay_path, the
\* source node is looked up, _route_drone_to_queen picks the target and the
\* hops. The message object belongs to the calling thread.
ThreadBegin(t, src, dst) ==
    /\ threads[t].pc = "idle"
    /\ Len(messages) < MaxMsgs
    /\ routeCalls < MaxRoutes
    /\ LET msg == MeshMessage(<<t, "MSG", 1>>, src, dst, "alert", <<>>, NoneVal)
           m1 == [msg EXCEPT !.relay_path = Append(@, src)]
           h == Len(messages) + 1
           known == src \in DOMAIN nodes /\ nodes[src].role = "DRONE"
           target == IF known THEN TargetQueen(m1) ELSE NoneVal
           ok == known /\ target # NoneVal /\ target \in DOMAIN nodes
       IN /\ messages' = Append(messages, IF ok THEN DroneHops(m1, target) ELSE m1)
          /\ threads' = [threads EXCEPT ![t] =
                            IF ok THEN [pc |-> "load", h |-> h, k |-> 1, tmp |-> 0,
                                        ret |-> NoneVal]
                            ELSE [pc |-> "done", h |-> h, k |-> 0, tmp |-> 0,
                                  ret |-> FALSE]]
    /\ routeCalls' = routeCalls + 1
    /\ UNCHANGED <<nodes, nodeOrder, queen_node_id, queen_node_ids, stats, message_log,
                   layers, routed, lastRoute, lastAlert>>
    /\ UNCHANGED <<queenVars, seqVars>>

\* self.stats[c] += x, first half: the value is read
ThreadLoad(t) ==
    /\ threads[t].pc = "load"
    /\ threads' = [threads EXCEPT ![t].pc = "store",
                                  ![t].tmp = stats[RoutedCounters[threads[t].k]]]
    /\ UNCHANGED <<meshVars, queenVars, seqVars>>

\* self.stats[c] += x, second half: the sum is written back
ThreadStore(t) ==
    /\ threads[t].pc = "store"
    /\ LET k == threads[t].k
           c == RoutedCounters[k]
           x == IF c = "relay_hops_total" THEN messages[threads[t].h].hop_count ELSE 1
       IN /\ stats' = [stats EXCEPT ![c] = threads[t].tmp + x]
          /\ threads' = [threads EXCEPT ![t].pc = IF k < Len(RoutedCounters)
                                                  THEN "load" ELSE "log",
                                        ![t].k = IF k < Len(RoutedCounters)
                                                 THEN k + 1 ELSE 0]
    /\ UNCHANGED <<nodes, nodeOrder, queen_node_id, queen_node_ids, message_log,
                   messages, layers, routeCalls, routed, lastRoute, lastAlert>>
    /\ UNCHANGED <<queenVars, seqVars>>

\* self._log_message(message)
ThreadLog(t) ==
    /\ threads[t].pc = "log"
    /\ message_log' = log_message(message_log, threads[t].h)
    /\ threads' = [threads EXCEPT ![t].pc = "load_alerts"]
    /\ UNCHANGED <<nodes, nodeOrder, queen_node_id, queen_node_ids, stats,
                   messages, layers, routeCalls, routed, lastRoute, lastAlert>>
    /\ UNCHANGED <<queenVars, seqVars>>

\* self.nodes[source]['alerts_sent'] += 1, first half
ThreadLoadAlerts(t) ==
    /\ threads[t].pc = "load_alerts"
    /\ threads' = [threads EXCEPT ![t].pc = "store_alerts",
                                  ![t].tmp = nodes[messages[threads[t].h].source_node_id]
                                                .alerts_sent]
    /\ UNCHANGED <<meshVars, queenVars, seqVars>>

\* self.nodes[source]['alerts_sent'] += 1, second half, and return True
ThreadStoreAlerts(t) ==
    /\ threads[t].pc = "store_alerts"
    /\ nodes' = [nodes EXCEPT ![messages[threads[t].h].source_node_id].alerts_sent =
                                 threads[t].tmp + 1]
    /\ routed' = routed \cup {messages[threads[t].h].message_id}
    /\ threads' = [threads EXCEPT ![t].pc = "done", ![t].ret = TRUE]
    /\ UNCHANGED <<nodeOrder, queen_node_id, queen_node_ids, stats, message_log,
                   messages, layers, routeCalls, lastRoute, lastAlert>>
    /\ UNCHANGED <<queenVars, seqVars>>

\* Two threads routing Drone alerts while nodes register and change status
ThreadNext ==
    \/ CreateLayer("Q1", NoneVal, TRUE)
    \/ \E n \in Drones : CreateLayer(n, "Q1", FALSE)
    \/ \E st \in {"ONLINE", "OFFLINE"} : UpdateNodeStatus("D2", st)
    \/ \E t \in Threads : \E src \in Drones : ThreadBegin(t, src, "Q1")
    \/ \E t \in Threads : ThreadLoad(t)
    \/ \E t \in Threads : ThreadStore(t)
    \/ \E t \in Threads : ThreadLog(t)
    \/ \E t \in Threads : ThreadLoadAlerts(t)
    \/ \E t \in Threads : ThreadStoreAlerts(t)

\* A Queen built with or without a satellite modem
\* (RoleAwareCommunicationLayer(..., has_satellite=False) is the default),
\* receiving Drone alerts
SatelliteNext ==
    \/ \E sat \in BOOLEAN : CreateLayer("Q1", NoneVal, sat)
    \/ \E d \in {60, 300} : Tick(d)
    \/ \E a \in {<<"D1", 75, 0>>, <<"D2", 75, 0>>, <<"D1", 50, 0>>} :
          ReceiveDroneAlert("Q1", a[1], a[2], a[3])

\* A Queen and one of its Drones: heartbeats, hours passing, status updates
HeartbeatNext ==
    \/ CreateLayer("Q1", NoneVal, TRUE)
    \/ CreateLayer("D1", "Q1", FALSE)
    \/ SendHeartbeat("D1")
    \/ \E st \in {"ONLINE", "OFFLINE"} : UpdateNodeStatus("D1", st)
    \/ HourTick(1)

\* run_continuous_monitoring on the node
MonitorNext ==
    \/ StartMonitoring
    \/ \E reading \in Readings : \E inputs \in CycleInputs :
          \E sat \in SatelliteReports : \E camera_data \in CameraData :
             \E failure \in StageFailures :
                LoopCycle(reading, inputs, sat, camera_data, failure)
    \/ Interrupt
    \/ NodeTick(300)

\* A communication layer called directly, as the Phase-6 tests do
CommNext ==
    \/ \E t \in {25, 100, 105} : \E h \in SensorHistories :
          \E d \in AlertArguments : \E sat \in SatelliteReports :
             CommProcessAlert(t, d, h, sat)
    \/ NodeTick(300)

-----------------------------------------------------------------------------
(* Specifications *)

Init == MeshInit /\ QueenInit /\ NodeInit /\ LogicInit /\ FractalInit /\ MonitorInit
        /\ FusionInit /\ ThreadInit

SpecMesh == Init /\ [][MeshNext]_vars

SpecQueen == Init /\ [][QueenNext]_vars

SpecNode == Init /\ [][NodeNext]_vars

SpecComm == Init /\ [][CommNext]_vars

SpecLogic == Init /\ [][LogicNext]_vars

SpecWatchdog == Init /\ [][WatchdogNext]_vars

SpecTrauma == Init /\ [][TraumaNext]_vars

SpecFractal == Init /\ [][FractalNext]_vars

SpecMonitor == Init /\ [][MonitorNext]_vars

SpecFusion == Init /\ [][FusionNext]_vars

SpecHeartbeat == Init /\ [][HeartbeatNext]_vars

SpecThreads == Init /\ [][ThreadNext]_vars

SpecSatellite == Init /\ [][SatelliteNext]_vars

-----------------------------------------------------------------------------
(* Properties of the pipeline node *)

\* C9: a pipeline cycle whose temperature reading exceeds the dying-gasp
\* threshold emits exactly one message: P1, over the satellite, marked
\* dying_gasp, with a black box holding at most black_box_buffer_seconds of
\* history.
C9_DyingGaspMessage ==
    (/\ lastCycle.called
     /\ lastCycle.via = "process_cycle"
     /\ lastCycle.temperature # Nothing
     /\ lastCycle.temperature[1] > dying_gasp_temp_threshold)
    => /\ Len(lastCycle.emitted) = 1
       /\ lastCycle.emitted[1].priority = "P1_CRITICAL"
       /\ lastCycle.emitted[1].channel = "satellite"
       /\ lastCycle.emitted[1].dying_gasp
       /\ lastCycle.emitted[1].black_box # Nothing
       /\ \A i \in 1..Len(lastCycle.emitted[1].black_box[1].sensor_history) :
             lastCycle.emitted[1].black_box[1].sensor_history[i]
                 <= black_box_buffer_seconds

\* C10: a reading of a sensor that has had a dying-gasp reading is returned
\* invalid by validate.
C10_InvalidAfterDyingGasp ==
    (lastValidate.called /\ lastValidate.after_gasp /\ lastValidate.reading # Nothing)
    => ~lastValidate.result.is_valid

\* The last call emitted a P1 alert whose satellite transmission reported
\* failure
P1SatelliteFailed ==
    /\ lastCycle.called
    /\ Len(lastCycle.emitted) = 1
    /\ lastCycle.emitted[1].priority = "P1_CRITICAL"
    /\ \E i \in 1..Len(lastCycle.tx) :
          lastCycle.tx[i].channel = "satellite" /\ ~lastCycle.tx[i].ok

\* C11: a P1 alert whose satellite transmission reports failure is sent over
\* the LoRa mesh, and is returned with channel lora_mesh and metadata
\* fallback = lora_mesh.
C11_P1FallsBackToLora ==
    P1SatelliteFailed
    => /\ \E i \in 1..Len(lastCycle.tx) :
             /\ lastCycle.tx[i].channel = "lora_mesh"
             /\ lastCycle.tx[i].alert_id = lastCycle.emitted[1].alert_id
       /\ lastCycle.emitted[1].channel = "lora_mesh"
       /\ lastCycle.emitted[1].fallback = "lora_mesh"

\* C12: a pipeline cycle emits an alert only if the cycle's Decision has
\* should_alert = true.
C12_EmitsOnlyWhenDecided ==
    (lastCycle.called /\ lastCycle.via = "process_cycle"
     /\ Len(lastCycle.emitted) > 0)
    => lastCycle.should_alert

\* C13: a pipeline cycle whose Decision is tier Red with should_alert = true
\* emits an alert of priority P1.
C13_RedDecisionIsP1 ==
    (/\ lastCycle.called
     /\ lastCycle.decision # Nothing
     /\ lastCycle.decision[1].risk_tier = "red"
     /\ lastCycle.decision[1].should_alert)
    => /\ Len(lastCycle.emitted) = 1
       /\ lastCycle.emitted[1].priority = "P1_CRITICAL"

\* Neighbours of the last decide call within the witness radius whose own
\* risk exceeds 0.4
ConfirmingNeighbors ==
    {i \in 1..Len(lastDecision.neighbor_nodes) :
       /\ lastDecision.neighbor_nodes[i].distance # Nothing
       /\ lastDecision.neighbor_nodes[i].distance[1] <= witness_radius_meters
       /\ lastDecision.neighbor_nodes[i].risk_score # Nothing
       /\ lastDecision.neighbor_nodes[i].risk_score[1] > 4000}

\* C14: for a composite risk in the Orange band, at least min_witnesses
\* confirming neighbours give a Red decision with risk raised by 0.15 and
\* trauma raised by 0.3 (up to 1.0); every other case, no neighbours included,
\* gives tier Orange, risk times 0.7, state Monitor and trauma raised by 0.2.
C14_OrangeWitnessOutcome ==
    (/\ lastDecision.called
     /\ lastDecision.composite >= 6000
     /\ lastDecision.composite < 8000)
    => IF Cardinality(ConfirmingNeighbors) >= min_witnesses
       THEN /\ lastDecision.decision.risk_tier = "red"
            /\ lastDecision.decision.risk_score = lastDecision.composite + 1500
            /\ lastDecision.trauma_handled
                  = Min(10000, lastDecision.trauma_before + 3000)
       ELSE /\ lastDecision.decision.risk_tier = "orange"
            /\ lastDecision.decision.risk_score * 10 <= lastDecision.composite * 7
            /\ lastDecision.decision.risk_score * 10 > lastDecision.composite * 7 - 10
            /\ lastDecision.decision.system_state = "monitor"
            /\ lastDecision.trauma_handled
                  = Min(10000, lastDecision.trauma_before + 2000)

-----------------------------------------------------------------------------
(* Properties of the watchdog *)

\* The last validate call had a reading with a value
ReadingPresent == lastValidate.called /\ lastValidate.reading # Nothing

\* The last reading was returned invalid as frozen and its sensor is broken
FrozenRejected ==
    /\ ~lastValidate.result.is_valid
    /\ lastValidate.result.failure_reason = "Frozen"
    /\ sensor_states[lastValidate.sensor_id].is_broken

\* The last reading equals the sensor's last value and came at least
\* frozen_threshold_hours after the frozen timer was started
FrozenSpanReached ==
    /\ lastValidate.state_before # Nothing
    /\ lastValidate.state_before[1].last_value = lastValidate.reading
    /\ lastValidate.state_before[1].frozen_since # Nothing
    /\ lastValidate.at - lastValidate.state_before[1].frozen_since[1]
          >= frozen_threshold_hours * 3600

\* The last reading differs from the sensor's last value
ValueChanged ==
    /\ lastValidate.state_before # Nothing
    /\ lastValidate.state_before[1].last_value # lastValidate.reading

\* The last reading lies inside the range of its sensor type
InsideRange ==
    LET ranges == sensor_ranges(SensorType(lastValidate.sensor_id))
        v == lastValidate.reading[1]
    IN /\ v >= ranges.min
       /\ v <= ranges.max
       /\ ranges.dying_gasp # Nothing => v < ranges.dying_gasp[1]

\* C16 as stated: a reading is rejected as frozen exactly when readings equal
\* to the last value have lasted frozen_threshold_hours since the timer
\* started, and any reading with a different value resets the timer.
C16_FrozenAfterThreshold ==
    ReadingPresent
    => /\ FrozenRejected <=> FrozenSpanReached
       /\ ValueChanged
          => sensor_states[lastValidate.sensor_id].frozen_since = Nothing

\* C16, amended: a reading is rejected as frozen exactly when readings equal
\* to the last value have lasted frozen_threshold_hours since the timer
\* started, and any reading inside the sensor's range with a different value
\* resets the timer.
C16_FrozenAfterThresholdInRange ==
    ReadingPresent
    => /\ FrozenRejected <=> FrozenSpanReached
       /\ (ValueChanged /\ InsideRange)
          => sensor_states[lastValidate.sensor_id].frozen_since = Nothing

\* A reading rejected as frozen at a sensor whose value had changed before
C16_Witness ==
    /\ ReadingPresent
    /\ FrozenRejected
    /\ FrozenSpanReached
    /\ \E i \in 1..Len(lastValidate.state_before[1].history) :
          lastValidate.state_before[1].history[i][1] # lastValidate.reading[1]

\* C17: the watchdog's trauma level lies in [0, 1] in every reachable state;
\* no register_trauma call lowers it and no apply_decay call raises it.  A
\* step that adds a trauma event is a register call; every other step that
\* changes the trauma system is a decay.
C17_TraumaBoundedMonotone ==
    /\ [](watchdog.trauma_level >= 0 /\ watchdog.trauma_level <= 100)
    /\ [][/\ watchdog'.trauma_events > watchdog.trauma_events
             => watchdog'.trauma_level >= watchdog.trauma_level
          /\ watchdog'.trauma_events = watchdog.trauma_events
             => watchdog'.trauma_level <= watchdog.trauma_level]_vars

\* Trauma that was registered, reached the top of the range or not, and has
\* since decayed
C17_Witness ==
    /\ watchdog.trauma_events >= 2
    /\ watchdog.last_decay > 0
    /\ watchdog.trauma_level > 0
    /\ watchdog.trauma_level < 50

\* The last validate call had no reading, and there is neither a history of
\* two values nor a default of the sensor's type to impute one from
CannotImpute ==
    /\ lastValidate.called
    /\ lastValidate.reading = Nothing
    /\ \/ lastValidate.state_before = Nothing
       \/ Len(lastValidate.state_before[1].history) < 2
    /\ SensorType(lastValidate.sensor_id) = "flame"

\* C18: every validate call returns a result; when the range check fails, the
\* frozen check fails or a missing reading cannot be imputed, the result has
\* is_valid = false and reliability 0.
C18_FailuresReturnInvalid ==
    lastValidate.called
    => /\ lastValidate.result.is_valid \in BOOLEAN
       /\ lastValidate.result.reliability_score \in 0..100
       /\ (\/ ReadingPresent /\ ~InsideRange
           \/ ReadingPresent /\ InsideRange /\ FrozenSpanReached
           \/ CannotImpute)
          => /\ ~lastValidate.result.is_valid
             /\ lastValidate.result.reliability_score = 0

\* A missing flame reading that cannot be imputed, at a watchdog that has
\* also turned down an out-of-range reading
C18_Witness ==
    /\ CannotImpute
    /\ ~lastValidate.result.is_valid
    /\ watchdog.stats.range_failures >= 1

-----------------------------------------------------------------------------
(* Properties of the monitoring loop *)

\* C19: a failure raised inside a stage does not end the pipeline loop: every
\* iteration the loop began has completed, and the loop is stopped only by an
\* explicit shutdown.
C19_LoopSurvivesStageFailure ==
    /\ monitor.state = "stopped" => monitor.ended_by = "KeyboardInterrupt"
    /\ monitor.cycles = iteration

-----------------------------------------------------------------------------
(* Properties of the fractal gate and the vision stage *)

\* The gate holds a latest analysis whose Hurst exponent is above the
\* threshold adapted to that analysis's trauma level and whose confidence is
\* above 0.7
LatestAnalysisActivates ==
    /\ fractal.last_analysis # Nothing
    /\ fractal.last_analysis[1].hurst_exponent
          > compute_adaptive_threshold(fractal.last_analysis[1].trauma_level)
    /\ fractal.last_analysis[1].confidence > 42

\* C20: the vision stage runs only if the gate's latest analysis has a Hurst
\* exponent above the adaptive threshold and confidence above 0.7;
\* should_activate_vision is false in every other state, including before the
\* minimum window is filled and after reset.
C20_VisionOnlyOnStructure ==
    /\ lastFractal.vision_called => LatestAnalysisActivates
    /\ should_activate_vision(fractal) <=> LatestAnalysisActivates
    /\ fractal.history_len < min_window_size => ~should_activate_vision(fractal)
    /\ lastFractal.op = "reset" => ~should_activate_vision(fractal)

\* The vision stage has just called Phase 4
C20_Witness ==
    /\ lastFractal.op = "vision"
    /\ lastFractal.vision_called
    /\ should_activate_vision(fractal)

-----------------------------------------------------------------------------
(* Properties of the fusion engines *)

\* The last state came from the SSM engine under one of its override rules
SSMOverride ==
    /\ lastFuse.engine = "mamba"
    /\ \/ /\ lastFuse.trend = "rising"
          /\ lastFuse.persistence > 6000
          /\ lastFuse.fire_risk_score > 6000
       \/ /\ lastFuse.cross_modal_lag > 15
          /\ lastFuse.chemical_score > 7000
          /\ lastFuse.visual_score > 5000

\* C21: in every state produced by fusion, with or without the temporal SSM,
\* fire_detected implies overall confidence of at least 0.5 and one of:
\* risk above 0.85; risk above 0.70 with agreement above 0.6; an SSM override
\* rule.
C21_FireNeedsConfidenceAndRule ==
    (lastFuse.called /\ lastFuse.fire_detected)
    => /\ lastFuse.overall_confidence >= 5000
       /\ \/ lastFuse.fire_risk_score > 8500
          \/ /\ lastFuse.fire_risk_score > 7000
             /\ lastFuse.cross_modal_agreement > 6000
          \/ SSMOverride

-----------------------------------------------------------------------------
(* Properties of the returned Decision and the gate's statistics *)

\* C27: in every Decision returned by decide, risk_tier agrees with the
\* returned risk_score under the tier thresholds (Green below 0.30, Yellow
\* below 0.60, Orange below 0.80, Red from 0.80), the Decisions of the witness
\* protocol included.
C27_TierAgreesWithReturnedScore ==
    lastDecision.called
    => lastDecision.decision.risk_tier
          = classify_risk_tier(lastDecision.decision.risk_score)

\* C28: after any sequence of decide calls, the alerts_triggered counter
\* equals the number of returned Decisions with should_alert true.
C28_AlertsTriggeredCountsAlerts ==
    logic.alerts_triggered = lastDecision.alerts_returned

-----------------------------------------------------------------------------
(* Properties of the communication layer's statistics *)

\* C29: every alert returned by process_alert, a dying gasp included, is
\* recorded in alerts_sent and counted in exactly one of p1_alerts, p2_alerts
\* and p3_alerts: after any sequence of calls their sum, the length of
\* alerts_sent and the number of alerts returned (alert_counter, raised once
\* for each alert built) are equal.
C29_EveryAlertCounted ==
    /\ comm.stats.p1_alerts + comm.stats.p2_alerts + comm.stats.p3_alerts
          = Len(comm.alerts_sent)
    /\ Len(comm.alerts_sent) = comm.alert_counter
    /\ (lastCycle.called /\ lastCycle.via = "process_alert")
          => \A i \in 1..Len(lastCycle.emitted) :
                \E j \in 1..Len(comm.alerts_sent) :
                   comm.alerts_sent[j].alert_id = lastCycle.emitted[i].alert_id

-----------------------------------------------------------------------------
(* Properties of the trauma level across the pipeline *)

\* C25: in every pipeline iteration, the trauma level the fractal gate uses
\* for its adaptive threshold equals the watchdog's trauma level of that
\* iteration, a copy of the value the watchdog wrote, not a constant.
C25_GateUsesWatchdogTrauma ==
    [][(iteration' = iteration + 1 /\ lastFractal'.op = "cycle")
       => /\ fractal'.current_trauma_level = watchdog'.trauma_level
          /\ lastFractal'.result[1].trauma_level = watchdog'.trauma_level
          /\ lastFractal'.result[1].adaptive_threshold
                = compute_adaptive_threshold(watchdog'.trauma_level)]_vars

-----------------------------------------------------------------------------
(* Properties of relay_path and hop_count *)

\* C30: for a message created with hop_count 0 and a relay_path that is empty
\* or holds only its source, after any number of route_message calls on it,
\* replays and rejected calls included, relay_path begins with the source id
\* and hop_count is the length of relay_path less one.
C30_HopCountMatchesPath ==
    \A h \in 1..Len(messages) :
       /\ Len(messages[h].relay_path) >= 1
       /\ messages[h].relay_path[1] = messages[h].source_node_id
       /\ messages[h].hop_count = Len(messages[h].relay_path) - 1

\* A message routed before was routed again: its path holds a second hop
C30_Witness ==
    /\ lastRoute.called /\ lastRoute.ok /\ lastRoute.replay
    /\ \E h \in 1..Len(messages) :
          /\ messages[h].message_id = lastRoute.message_id
          /\ messages[h].hop_count >= 2
          /\ Len(messages[h].relay_path) >= 3

-----------------------------------------------------------------------------
(* Properties of the satellite modem *)

HasSatellite(n) == n \in DOMAIN layers /\ layers[n].has_satellite

\* C26: a node reports or sends an alert on the satellite channel only if its
\* has_satellite flag is true; a Queen without a satellite modem produces no
\* satellite-channel result and no satellite uplink, for an escalated
\* aggregate as for its own alerts.
C26_SatelliteNeedsModem ==
    /\ \A k \in 1..Len(received) :
          received[k].result.channel = SATELLITE
             => HasSatellite(received[k].result.source)
    /\ \A h \in 1..Len(messages) :
          (\/ InPath(SATELLITE, messages[h].relay_path)
           \/ messages[h].message_type = "satellite_uplink")
             => HasSatellite(messages[h].source_node_id)

-----------------------------------------------------------------------------
(* Properties of relay selection *)

\* The last route_message call routed a Drone's fresh message over a relay:
\* source, relay and target Queen make up the path, over two hops
RelayPlaced ==
    /\ lastRoute.called /\ lastRoute.ok
    /\ IsDrone(lastRoute.source)
    /\ lastRoute.target \in DOMAIN nodes
    /\ distance_to(nodes[lastRoute.source].location, nodes[lastRoute.target].location)
          > lora_range_meters
    /\ lastRoute.msg.hop_count = 2
    /\ Len(lastRoute.msg.relay_path) = 3
    /\ lastRoute.msg.relay_path[1] = lastRoute.source
    /\ lastRoute.msg.relay_path[3] = lastRoute.target

\* C23: when a Drone is out of LoRa range of its Queen and a relay is placed
\* on the path, the relay is a Drone, not a Queen and not the source, whose
\* status is Online and that is within LoRa range of both the source and the
\* Queen, at the return of the route_message call that placed it.
RelayIsOnlineDroneInRange ==
    LET relay == lastRoute.msg.relay_path[2] IN
    /\ relay \in DOMAIN nodes
    /\ relay # lastRoute.source
    /\ nodes[relay].role = "DRONE"
    /\ nodes[relay].status = "ONLINE"
    /\ distance_to(nodes[relay].location, nodes[lastRoute.source].location)
          <= lora_range_meters
    /\ distance_to(nodes[relay].location, nodes[lastRoute.target].location)
          <= lora_range_meters

C23_RelayIsOnlineDroneInRange ==
    [][(routeCalls' = routeCalls + 1 /\ RelayPlaced') => RelayIsOnlineDroneInRange']_vars

-----------------------------------------------------------------------------
(* Properties of the mesh under threads *)

Returned(t) == threads[t].pc = "done"

\* C24: when route_message, register_node and update_node_status run from
\* different threads, no update is lost: once every route_message call has
\* returned, messages_routed equals the number of calls that returned True
\* and every routed message within the log's capacity is in the log.
C24_NoLostUpdate ==
    (\A t \in Threads : Returned(t))
    => /\ stats.messages_routed = Cardinality({t \in Threads : threads[t].ret = TRUE})
       /\ \A t \in Threads :
             threads[t].ret = TRUE => InPath(threads[t].h, message_log)

-----------------------------------------------------------------------------
(* Properties of the heartbeat *)

\* C22: a Drone from which the Queen's mesh has had no heartbeat for longer
\* than the timeout window is Dead in the registry. The repository configures
\* no timeout; the window taken is the longest gap between two heartbeats of
\* a live Drone, the heartbeat interval plus the jitter.
C22_SilentDroneIsDead ==
    \A n \in DOMAIN nodes :
       (/\ nodes[n].role = "DRONE"
        /\ now - nodes[n].last_heartbeat > heartbeat_interval_sec + heartbeat_jitter_sec)
       => nodes[n].status \in {"DEAD", "dead"}

====
